---- MODULE Spec2Model ----
(***************************************************************************)
(* Model of Freescape::Area (engines/freescape/area.cpp): the object       *)
(* store (objects map, entrances map, drawable-ordered view, added-objects *)
(* set) and the spatial queries (shootRay, checkCollisions, checkInSight,  *)
(* sweepAABB, resolveCollisions).                                          *)
(*                                                                         *)
(* Objects live on a heap and are referred to by pointer (a positive       *)
(* integer, allocated in increasing order); the maps and the view hold     *)
(* pointers, as in the source.  Coordinates are exact rationals <<n, d>>   *)
(* (float rounding is not modelled); <<1, 0>> stands for INFINITY.         *)
(*                                                                         *)
(* A second part models Nancy::Action::ConversationSound::execute          *)
(* (engines/nancy) with the textbox, the sounds and the video around it.   *)
(***************************************************************************)
EXTENDS Integers, Sequences, FiniteSets, TLC

VARIABLES heap, objectsByID, entrancesByID, drawableObjects, addedObjects,
          colorRemaps, scale, groundColor, globalObjectsByID,
          globalEntrancesByID, nextPtr, lastOp, crashed, resolving,
          conversations, activeConversation, logicConditions, soundsPlaying,
          videoDonePlaying, hotspots

vars == <<heap, objectsByID, entrancesByID, drawableObjects, addedObjects,
          colorRemaps, scale, groundColor, globalObjectsByID,
          globalEntrancesByID, nextPtr, lastOp, crashed, resolving,
          conversations, activeConversation, logicConditions, soundsPlaying,
          videoDonePlaying, hotspots>>

\* the scene of the conversation records (engines/nancy)
nancyVars == <<conversations, activeConversation, logicConditions, soundsPlaying,
               videoDonePlaying, hotspots>>

areaVars == <<objectsByID, entrancesByID, drawableObjects, addedObjects>>
globalVars == <<globalObjectsByID, globalEntrancesByID>>

\* resolving when no call of resolveCollisions is running
Idle == [pc |-> "idle"]

----------------------------------------------------------------------------
(* Bounds *)

\* number of objects the runtime operations may allocate in one run
MaxAlloc == 2

----------------------------------------------------------------------------
(* Exact arithmetic *)

\* Body(v) with v computed once (a plain LET is recomputed at every use)
Let(v, Body(_)) == CHOOSE y \in {Body(x) : x \in {v}} : TRUE

Abs(x) == IF x < 0 THEN -x ELSE x

RECURSIVE GCD(_, _)
GCD(a, b) == IF b = 0 THEN a ELSE Let(a % b, LAMBDA r : GCD(b, r))

Rat(n, d) ==
    Let(<<n, d>>, LAMBDA p :
        IF p[2] = 0 THEN <<1, 0>>
        ELSE Let(GCD(Abs(p[1]), Abs(p[2])), LAMBDA g :
                 LET s == IF p[2] < 0 THEN -1 ELSE 1
                 IN  <<(s * p[1]) \div g, (s * p[2]) \div g>>))

RI(n) == <<n, 1>>
RInfinity == <<1, 0>>
\* (whole numbers need no reduction)
RAdd(a, b) ==
    IF a[2] = 1 /\ b[2] = 1 THEN <<a[1] + b[1], 1>>
    ELSE Rat(a[1] * b[2] + b[1] * a[2], a[2] * b[2])
RSub(a, b) ==
    IF a[2] = 1 /\ b[2] = 1 THEN <<a[1] - b[1], 1>>
    ELSE Rat(a[1] * b[2] - b[1] * a[2], a[2] * b[2])
RMul(a, b) ==
    IF a[2] = 1 /\ b[2] = 1 THEN <<a[1] * b[1], 1>>
    ELSE Rat(a[1] * b[1], a[2] * b[2])
RDiv(a, b) == Rat(a[1] * b[2], a[2] * b[1])
RLt(a, b) == a[1] * b[2] < b[1] * a[2]
RLe(a, b) == a[1] * b[2] <= b[1] * a[2]
RGe(a, b) == RLe(b, a)
RGt(a, b) == RLt(b, a)
RMin(a, b) == IF RLt(b, a) THEN b ELSE a
RMax(a, b) == IF RLt(a, b) THEN b ELSE a

\* Math::Vector3d
Vec(x, y, z) == <<RI(x), RI(y), RI(z)>>
VZero == Vec(0, 0, 0)
VAdd(u, v) == <<RAdd(u[1], v[1]), RAdd(u[2], v[2]), RAdd(u[3], v[3])>>
VSub(u, v) == <<RSub(u[1], v[1]), RSub(u[2], v[2]), RSub(u[3], v[3])>>
VScale(s, v) == <<RMul(s, v[1]), RMul(s, v[2]), RMul(s, v[3])>>
VDot(u, v) == RAdd(RAdd(RMul(u[1], v[1]), RMul(u[2], v[2])), RMul(u[3], v[3]))

----------------------------------------------------------------------------
(* Objects *)

kCubeType == "cube"
kRectangleType == "rectangle"
kSensorType == "sensor"
kEntranceType == "entrance"
kGroupType == "group"
kGlobalStructureType == "structure"

\* flag bits of Object::_flags
FlagDestroyed == 32
FlagInvisible == 64
FlagInitiallyInvisible == 128

HasBit(flags, bit) == (flags \div bit) % 2 = 1
SetBit(flags, bit) == IF HasBit(flags, bit) THEN flags ELSE flags + bit
ClearBit(flags, bit) == IF HasBit(flags, bit) THEN flags - bit ELSE flags

isDestroyed(o) == HasBit(o.flags, FlagDestroyed)
isInvisible(o) == HasBit(o.flags, FlagInvisible)
isInitiallyInvisible(o) == HasBit(o.flags, FlagInitiallyInvisible)
isDrawable(o) == o.drawable
isPlanar(o) == o.planar

\* an object as the loader or a runtime constructor makes it
NewObject(id, type, flags, origin, size, drawable, planar, boxValid, colors, structure) ==
    [id |-> id, type |-> type, flags |-> flags, origin |-> origin,
     size |-> size, drawable |-> drawable, planar |-> planar,
     boxValid |-> boxValid, colors |-> colors, structure |-> structure]

\* Object::duplicate: a value copy (the caller stores it under a fresh pointer)
duplicate(o) == o

\* Object::scale
scaleObject(o, factor) ==
    [o EXCEPT !.origin = VScale(RI(factor), o.origin),
              !.size = VScale(RI(factor), o.size)]

----------------------------------------------------------------------------
(* Maps: a Common::HashMap<uint16, Object *> is a function from the keys   *)
(* it contains to pointers.                                                *)

EmptyMap == <<>>
contains(map, key) == key \in DOMAIN map
MapPut(map, key, ptr) == [k \in (DOMAIN map) \cup {key} |-> IF k = key THEN ptr ELSE map[k]]
MapErase(map, key) == [k \in (DOMAIN map) \ {key} |-> map[k]]

\* conversions between the int16 parameters and the uint16 keys
ToInt16(u) == IF u % 65536 >= 32768 THEN (u % 65536) - 65536 ELSE u % 65536
ToUint16(i) == i % 65536

NoObject == 0

\* Area::objectWithIDFromMap
objectWithIDFromMap(map, objectID) ==
    IF ~contains(map, objectID) THEN NoObject ELSE map[objectID]

----------------------------------------------------------------------------
(* The area as a value: the operations below are functions from area state *)
(* to area state, so that a handler which calls another (addStructure,     *)
(* loadObjects) is the composition the source writes.                      *)

AreaState ==
    [heap |-> heap, objectsByID |-> objectsByID, entrancesByID |-> entrancesByID,
     drawableObjects |-> drawableObjects, addedObjects |-> addedObjects,
     colorRemaps |-> colorRemaps, nextPtr |-> nextPtr, crashed |-> FALSE]

\* operator new: the object is stored under the next free pointer
Allocate(st, obj) ==
    [st EXCEPT !.heap = st.heap @@ (st.nextPtr :> obj), !.nextPtr = st.nextPtr + 1]

\* a failed assert() ends the program with the state as it is
AssertFailed(st) == [st EXCEPT !.crashed = TRUE]

\* Common::Array::insert_at(0, x)
insert_at0(array, x) == <<x>> \o array

\* Common::Array::remove_at(i), i counted from 1
remove_at(array, i) == SubSeq(array, 1, i - 1) \o SubSeq(array, i + 1, Len(array))

\* Area::objectWithID / Area::entranceWithID of the global area
globalObjectWithID(objectID) == objectWithIDFromMap(globalObjectsByID, objectID)
globalEntranceWithID(objectID) == objectWithIDFromMap(globalEntrancesByID, objectID)

\* addObject with push_back in place of insert_at(0, obj)
addObject_pushBack(st, ptr) ==
    LET obj == st.heap[ptr]
        id == obj.id
    IN  IF ptr = NoObject THEN AssertFailed(st)
        ELSE IF contains(st.objectsByID, id) THEN AssertFailed(st)
        ELSE [st EXCEPT
                !.objectsByID = MapPut(st.objectsByID, id, ptr),
                !.drawableObjects = IF isDrawable(obj)
                                    THEN Append(st.drawableObjects, ptr)
                                    ELSE st.drawableObjects,
                !.addedObjects = MapPut(st.addedObjects, id, ptr)]

\* addObject without the last line, _addedObjects[id] = obj
addObject_notRecorded(st, ptr) ==
    LET obj == st.heap[ptr]
        id == obj.id
    IN  IF ptr = NoObject THEN AssertFailed(st)
        ELSE IF contains(st.objectsByID, id) THEN AssertFailed(st)
        ELSE [st EXCEPT
                !.objectsByID = MapPut(st.objectsByID, id, ptr),
                !.drawableObjects = IF isDrawable(obj)
                                    THEN insert_at0(st.drawableObjects, ptr)
                                    ELSE st.drawableObjects]

\* Area::addObject(obj), obj a pointer into the heap
addObject(st, ptr) ==
    LET obj == st.heap[ptr]
        id == obj.id
    IN  IF ptr = NoObject THEN AssertFailed(st)
        ELSE IF contains(st.objectsByID, id) THEN AssertFailed(st)
        ELSE [st EXCEPT
                !.objectsByID = MapPut(st.objectsByID, id, ptr),
                !.drawableObjects = IF isDrawable(obj)
                                    THEN insert_at0(st.drawableObjects, ptr)
                                    ELSE st.drawableObjects,
                !.addedObjects = MapPut(st.addedObjects, id, ptr)]

\* index of the first entry of the view whose object id equals the int16 id
\* (uint16 getObjectID() and int16 id are both promoted to int), 0 if none
RECURSIVE FirstWithID(_, _, _, _)
FirstWithID(h, array, id, i) ==
    IF i > Len(array) THEN 0
    ELSE IF h[array[i]].id = id THEN i
    ELSE FirstWithID(h, array, id, i + 1)

\* removeObject without the assert: an absent id is ignored
removeObject_ignoreAbsent(st, id) ==
    IF ~contains(st.objectsByID, ToUint16(id)) THEN st
    ELSE LET i == FirstWithID(st.heap, st.drawableObjects, id, 1)
         IN  [st EXCEPT
                !.drawableObjects = IF i = 0 THEN st.drawableObjects
                                    ELSE remove_at(st.drawableObjects, i),
                !.objectsByID = MapErase(st.objectsByID, ToUint16(id)),
                !.addedObjects = MapErase(st.addedObjects, ToUint16(id))]

\* Area::removeObject(int16 id)
removeObject(st, id) ==
    IF ~contains(st.objectsByID, ToUint16(id)) THEN AssertFailed(st)
    ELSE LET i == FirstWithID(st.heap, st.drawableObjects, id, 1)
         IN  [st EXCEPT
                !.drawableObjects = IF i = 0 THEN st.drawableObjects
                                    ELSE remove_at(st.drawableObjects, i),
                !.objectsByID = MapErase(st.objectsByID, ToUint16(id)),
                !.addedObjects = MapErase(st.addedObjects, ToUint16(id))]

\* addObjectFromArea looking into the global entrances map first
addObjectFromArea_entranceFirst(st, id, areaScale) ==
    LET key == ToUint16(id)
        src == globalEntranceWithID(key)
    IN  IF src # NoObject
        THEN LET dup == scaleObject(duplicate(st.heap[src]), areaScale)
                 ptr == st.nextPtr
                 st1 == Allocate(st, dup)
             IN  [st1 EXCEPT
                    !.addedObjects = MapPut(st.addedObjects, key, ptr),
                    !.entrancesByID = MapPut(st.entrancesByID, key, ptr)]
        ELSE IF globalObjectWithID(key) = NoObject THEN AssertFailed(st)
        ELSE LET dup == scaleObject(duplicate(st.heap[globalObjectWithID(key)]), areaScale)
                 ptr == st.nextPtr
                 st1 == Allocate(st, dup)
             IN  [st1 EXCEPT
                    !.objectsByID = MapPut(st.objectsByID, key, ptr),
                    !.addedObjects = MapPut(st.addedObjects, key, ptr),
                    !.drawableObjects = IF isDrawable(dup)
                                        THEN insert_at0(st.drawableObjects, ptr)
                                        ELSE st.drawableObjects]

\* addObjectFromArea storing the global object itself, without duplicate()
addObjectFromArea_noDuplicate(st, id, areaScale) ==
    LET key == ToUint16(id)
        src == globalObjectWithID(key)
    IN  IF src = NoObject
        THEN IF globalEntranceWithID(key) = NoObject THEN AssertFailed(st)
             ELSE [st EXCEPT
                     !.addedObjects = MapPut(st.addedObjects, key, globalEntranceWithID(key)),
                     !.entrancesByID = MapPut(st.entrancesByID, key, globalEntranceWithID(key))]
        ELSE [st EXCEPT
                !.objectsByID = MapPut(st.objectsByID, key, src),
                !.addedObjects = MapPut(st.addedObjects, key, src),
                !.drawableObjects = IF isDrawable(st.heap[src])
                                    THEN insert_at0(st.drawableObjects, src)
                                    ELSE st.drawableObjects]

\* Area::addObjectFromArea(int16 id, Area *global)
addObjectFromArea(st, id, areaScale) ==
    LET key == ToUint16(id)
        src == globalObjectWithID(key)
    IN  IF src = NoObject
        THEN IF globalEntranceWithID(key) = NoObject THEN AssertFailed(st)
             ELSE LET dup == scaleObject(duplicate(st.heap[globalEntranceWithID(key)]), areaScale)
                      ptr == st.nextPtr
                      st1 == Allocate(st, dup)
                  IN  [st1 EXCEPT
                         !.addedObjects = MapPut(st.addedObjects, key, ptr),
                         !.entrancesByID = MapPut(st.entrancesByID, key, ptr)]
        ELSE LET dup == scaleObject(duplicate(st.heap[src]), areaScale)
                 ptr == st.nextPtr
                 st1 == Allocate(st, dup)
             IN  [st1 EXCEPT
                    !.objectsByID = MapPut(st.objectsByID, key, ptr),
                    !.addedObjects = MapPut(st.addedObjects, key, ptr),
                    !.drawableObjects = IF isDrawable(dup)
                                        THEN insert_at0(st.drawableObjects, ptr)
                                        ELSE st.drawableObjects]

\* the synthetic floor of Area::addFloor
FloorObject(color) ==
    NewObject(0, kCubeType, 0, Vec(-4128, -1, -4128), Vec(4128 * 4, 1, 4128 * 4),
              TRUE, FALSE, TRUE, [i \in 1..6 |-> color], <<>>)

\* Area::addFloor with push_back in place of insert_at(0, obj)
addFloor_pushBack(st, color) ==
    IF contains(st.objectsByID, 0) THEN AssertFailed(st)
    ELSE LET ptr == st.nextPtr
             st1 == Allocate(st, FloorObject(color))
         IN  [st1 EXCEPT
                !.objectsByID = MapPut(st.objectsByID, 0, ptr),
                !.drawableObjects = Append(st.drawableObjects, ptr)]

\* Area::addFloor
addFloor(st, color) ==
    IF contains(st.objectsByID, 0) THEN AssertFailed(st)
    ELSE LET ptr == st.nextPtr
             st1 == Allocate(st, FloorObject(color))
         IN  [st1 EXCEPT
                !.objectsByID = MapPut(st.objectsByID, 0, ptr),
                !.drawableObjects = insert_at0(st.drawableObjects, ptr)]

\* the loop of Area::addStructure ending at the first id 0
RECURSIVE addStructureFrom_zeroEnds(_, _, _, _)
addStructureFrom_zeroEnds(st, structure, i, areaScale) ==
    IF st.crashed \/ i > Len(structure) THEN st
    ELSE IF structure[i] = 0 THEN st
    ELSE addStructureFrom_zeroEnds(addObjectFromArea(st, structure[i], areaScale),
                                   structure, i + 1, areaScale)

\* the loop of Area::addStructure over rs->_structure, from index i
RECURSIVE addStructureFrom(_, _, _, _)
addStructureFrom(st, structure, i, areaScale) ==
    IF st.crashed \/ i > Len(structure) THEN st
    ELSE IF structure[i] = 0 THEN addStructureFrom(st, structure, i + 1, areaScale)
    ELSE addStructureFrom(addObjectFromArea(st, structure[i], areaScale),
                          structure, i + 1, areaScale)

\* Area::addStructure(Area *global); hasGlobal is global != nullptr
addStructure(st, hasGlobal, color, areaScale) ==
    IF ~hasGlobal \/ ~contains(st.entrancesByID, 255) THEN addFloor(st, color)
    ELSE addStructureFrom(st, st.heap[st.entrancesByID[255]].structure, 1, areaScale)

\* Area::remapColor
remapColor(st, index, color) ==
    [st EXCEPT !.colorRemaps = MapPut(st.colorRemaps, index, color)]

\* the second loop of Area::loadObjects, over the saved remap pairs
RECURSIVE loadRemapsFrom(_, _, _)
loadRemapsFrom(st, remaps, i) ==
    IF i > Len(remaps) THEN st
    ELSE loadRemapsFrom(remapColor(st, remaps[i][1], remaps[i][2]), remaps, i + 1)

\* Object::setObjectFlags and Object::setOrigin through the pointer
setFlagsAndOrigin(st, ptr, flags, origin) ==
    [st EXCEPT !.heap[ptr].flags = flags, !.heap[ptr].origin = origin]

\* the first loop of loadObjects adding the global object itself, without
\* duplicate()
RECURSIVE loadObjectsFrom_noDuplicate(_, _, _)
loadObjectsFrom_noDuplicate(st, entries, i) ==
    IF st.crashed \/ i > Len(entries) THEN st
    ELSE LET e == entries[i]
             key == ToUint16(e.key)
         IN  IF contains(st.objectsByID, key)
             THEN loadObjectsFrom_noDuplicate(
                      setFlagsAndOrigin(st, st.objectsByID[key], e.flags, e.origin),
                      entries, i + 1)
             ELSE IF globalObjectWithID(key) = NoObject THEN AssertFailed(st)
             ELSE LET ptr == globalObjectWithID(key)
                      st2 == addObject(st, ptr)
                  IN  IF st2.crashed THEN st2
                      ELSE loadObjectsFrom_noDuplicate(
                               setFlagsAndOrigin(st2, ptr, e.flags, e.origin),
                               entries, i + 1)

\* the first loop of Area::loadObjects, over the saved objects
RECURSIVE loadObjectsFrom(_, _, _)
loadObjectsFrom(st, entries, i) ==
    IF st.crashed \/ i > Len(entries) THEN st
    ELSE LET e == entries[i]
             key == ToUint16(e.key)
         IN  IF contains(st.objectsByID, key)
             THEN loadObjectsFrom(
                      setFlagsAndOrigin(st, st.objectsByID[key], e.flags, e.origin),
                      entries, i + 1)
             ELSE IF globalObjectWithID(key) = NoObject THEN AssertFailed(st)
             ELSE LET ptr == st.nextPtr
                      st1 == Allocate(st, duplicate(st.heap[globalObjectWithID(key)]))
                      st2 == addObject(st1, ptr)
                  IN  IF st2.crashed THEN st2
                      ELSE loadObjectsFrom(
                               setFlagsAndOrigin(st2, ptr, e.flags, e.origin),
                               entries, i + 1)

\* Area::loadObjects(stream, global)
loadObjects(st, stream) ==
    LET st1 == loadObjectsFrom(st, stream.objects, 1)
    IN  IF st1.crashed THEN st1
        ELSE loadRemapsFrom([st1 EXCEPT !.colorRemaps = EmptyMap], stream.remaps, 1)

\* Object::restore, Object::makeInvisible, Object::makeVisible
restore(o) == [o EXCEPT !.flags = ClearBit(o.flags, FlagDestroyed)]
makeInvisible(o) == [o EXCEPT !.flags = SetBit(o.flags, FlagInvisible)]
makeVisible(o) == [o EXCEPT !.flags = ClearBit(o.flags, FlagInvisible)]

\* the loop body without obj->restore()
resetObject_noRestore(o) ==
    IF isInitiallyInvisible(o) THEN makeInvisible(o) ELSE makeVisible(o)

\* the body of both loops of Area::resetArea for one object
resetObject(o) ==
    LET r == IF isDestroyed(o) THEN restore(o) ELSE o
    IN  IF isInitiallyInvisible(r) THEN makeInvisible(r) ELSE makeVisible(r)

\* the values of a map
MapValues(map) == {map[k] : k \in DOMAIN map}

\* Area::resetArea
resetArea(st) ==
    LET reset == MapValues(st.objectsByID) \cup MapValues(st.entrancesByID)
    IN  [st EXCEPT
           !.colorRemaps = EmptyMap,
           !.heap = [p \in DOMAIN st.heap |->
                       IF p \in reset THEN resetObject(st.heap[p]) ELSE st.heap[p]]]

\* the keys of a map in the order in which a loop over the map meets them
\* (taken to be ascending)
RECURSIVE StorageOrder(_)
StorageOrder(keys) ==
    IF keys = {} THEN <<>>
    ELSE LET k == CHOOSE x \in keys : \A y \in keys : x <= y
         IN  <<k>> \o StorageOrder(keys \ {k})

\* Area::saveObjects: the stream as its objects (key, flags, origin) and
\* its remap pairs; the two counts are the lengths
saveObjects(st) ==
    LET keys == StorageOrder(DOMAIN st.objectsByID)
        indexes == StorageOrder(DOMAIN st.colorRemaps)
    IN  [objects |-> [i \in 1..Len(keys) |->
                        [key |-> keys[i],
                         flags |-> st.heap[st.objectsByID[keys[i]]].flags,
                         origin |-> st.heap[st.objectsByID[keys[i]]].origin]],
         remaps |-> [i \in 1..Len(indexes) |->
                        <<indexes[i], st.colorRemaps[indexes[i]]>>]]

\* one loop of Area::~Area over map, from position i of its storage order:
\* the pointers it deletes
RECURSIVE deleteFrom(_, _, _, _)
deleteFrom(st, map, keys, i) ==
    IF i > Len(keys) THEN <<>>
    ELSE LET ptr == map[keys[i]]
         IN  (IF ~contains(st.addedObjects, st.heap[ptr].id) THEN <<ptr>> ELSE <<>>)
             \o deleteFrom(st, map, keys, i + 1)

\* Area::~Area: the pointers it deletes, in order
destroyArea(st) ==
    deleteFrom(st, st.entrancesByID, StorageOrder(DOMAIN st.entrancesByID), 1)
    \o deleteFrom(st, st.objectsByID, StorageOrder(DOMAIN st.objectsByID), 1)

----------------------------------------------------------------------------
(* Level data: the global area and the builds an area is constructed from  *)

Unit == Vec(1, 1, 1)

\* the global area: objects 1, 6 and 8, entrances 6 and 7
GlobalObjects ==
    << NewObject(1, kCubeType, 0, Vec(10, 0, 10), Vec(4, 4, 4), TRUE, FALSE, TRUE, <<>>, <<>>),
       NewObject(6, kRectangleType, 0, Vec(20, 0, 20), Vec(4, 0, 4), TRUE, TRUE, TRUE, <<>>, <<>>),
       NewObject(8, kEntranceType, 0, Vec(30, 0, 30), VZero, FALSE, FALSE, FALSE, <<>>, <<>>) >>
GlobalEntrances ==
    << NewObject(6, kEntranceType, 0, Vec(40, 0, 40), VZero, FALSE, FALSE, FALSE, <<>>, <<>>),
       NewObject(7, kEntranceType, 0, Vec(50, 0, 50), VZero, FALSE, FALSE, FALSE, <<>>, <<>>) >>

\* what the loader can put into an area's objects map ...
LevelObjects ==
    << NewObject(1, kCubeType, 0, Vec(0, 0, 0), Vec(2, 2, 2), TRUE, FALSE, TRUE, <<>>, <<>>),
       NewObject(2, kRectangleType, 0, Vec(4, 0, 0), Vec(2, 0, 2), TRUE, TRUE, TRUE, <<>>, <<>>),
       NewObject(3, kCubeType, 128, Vec(8, 0, 0), Vec(2, 2, 2), TRUE, FALSE, TRUE, <<>>, <<>>),
       NewObject(4, kRectangleType, 0, Vec(12, 0, 0), Vec(2, 0, 2), TRUE, TRUE, TRUE, <<>>, <<>>),
       NewObject(5, kEntranceType, 0, Vec(16, 0, 0), VZero, FALSE, FALSE, FALSE, <<>>, <<>>) >>
\* ... and into its entrances map
LevelEntrances ==
    << NewObject(9, kEntranceType, 0, Vec(0, 0, 8), VZero, FALSE, FALSE, FALSE, <<>>, <<>>),
       NewObject(255, kGlobalStructureType, 0, VZero, VZero, FALSE, FALSE, FALSE, <<>>, <<7, 0, 6>>) >>

\* a build names the level objects and entrances it holds (by index)
LevelBuilds ==
    { [objects |-> {}, entrances |-> {}],
      [objects |-> {1, 2}, entrances |-> {1}],
      [objects |-> {1, 2, 3, 4, 5}, entrances |-> {2}] }

\* pointers: global objects, global entrances, level objects, level entrances
GlobalObjectPtr(i) == i
GlobalEntrancePtr(i) == Len(GlobalObjects) + i
LevelObjectPtr(i) == Len(GlobalObjects) + Len(GlobalEntrances) + i
LevelEntrancePtr(i) == Len(GlobalObjects) + Len(GlobalEntrances) + Len(LevelObjects) + i
FirstRuntimePtr ==
    Len(GlobalObjects) + Len(GlobalEntrances) + Len(LevelObjects) + Len(LevelEntrances) + 1

LevelHeap == GlobalObjects \o GlobalEntrances \o LevelObjects \o LevelEntrances

\* the objects of the global area, and the objects a build b supplies
GlobalPtrs == 1..(Len(GlobalObjects) + Len(GlobalEntrances))
BuildPtrs(b) ==
    {LevelObjectPtr(i) : i \in b.objects} \cup {LevelEntrancePtr(i) : i \in b.entrances}

\* the map holding the objects of list at the indices idx
MapOfList(list, idx, ptrOf(_)) ==
    [id \in {list[i].id : i \in idx} |->
        ptrOf(CHOOSE i \in idx : list[i].id = id)]

\* the comparison of Area::Area: non-planar first, then higher ids first
compareObjects(object1, object2) ==
    IF ~isPlanar(object1) /\ isPlanar(object2) THEN TRUE
    ELSE IF isPlanar(object1) /\ ~isPlanar(object2) THEN FALSE
    ELSE object1.id > object2.id

\* Common::sort with compareObjects: the pointers of ptrs in sorted order
RECURSIVE SortObjects(_, _)
SortObjects(h, ptrs) ==
    IF ptrs = {} THEN <<>>
    ELSE LET first == CHOOSE p \in ptrs :
                          \A q \in ptrs \ {p} : ~compareObjects(h[q], h[p])
         IN  <<first>> \o SortObjects(h, ptrs \ {first})

\* Area::Area pushing every object of the map, drawable or not
InitialView_all(h, map) ==
    SortObjects(h, {map[id] : id \in DOMAIN map})

\* Area::Area: the view is the drawable objects of the objects map, sorted
InitialView(h, map) ==
    SortObjects(h, {map[id] : id \in {k \in DOMAIN map : isDrawable(h[map[k]])}})

NoOp == [op |-> "Area", arg |-> <<>>, ret |-> <<>>]

Construct(h, objects, entrances) ==
    /\ heap = h
    /\ objectsByID = objects
    /\ entrancesByID = entrances
    /\ drawableObjects = InitialView(h, objects)
    /\ addedObjects = EmptyMap
    /\ colorRemaps = EmptyMap
    /\ groundColor = 255
    /\ nextPtr = FirstRuntimePtr
    /\ lastOp = NoOp
    /\ crashed = FALSE
    /\ resolving = Idle

\* no conversation record is in the scene
NoConversation ==
    /\ conversations = <<>>
    /\ activeConversation = 0
    /\ logicConditions = {}
    /\ soundsPlaying = {}
    /\ videoDonePlaying = <<>>
    /\ hotspots = 0

GlobalArea ==
    /\ globalObjectsByID = MapOfList(GlobalObjects, 1..Len(GlobalObjects), GlobalObjectPtr)
    /\ globalEntrancesByID = MapOfList(GlobalEntrances, 1..Len(GlobalEntrances), GlobalEntrancePtr)

Init ==
    /\ GlobalArea
    /\ NoConversation
    /\ scale = 2
    /\ \E b \in LevelBuilds :
          Construct([p \in GlobalPtrs \cup BuildPtrs(b) |-> LevelHeap[p]],
                    MapOfList(LevelObjects, b.objects, LevelObjectPtr),
                    MapOfList(LevelEntrances, b.entrances, LevelEntrancePtr))

----------------------------------------------------------------------------
(* Operations of the object store as actions *)

Commit(st, op) ==
    /\ heap' = st.heap
    /\ objectsByID' = st.objectsByID
    /\ entrancesByID' = st.entrancesByID
    /\ drawableObjects' = st.drawableObjects
    /\ addedObjects' = st.addedObjects
    /\ colorRemaps' = st.colorRemaps
    /\ nextPtr' = st.nextPtr
    /\ crashed' = st.crashed
    /\ lastOp' = op
    /\ UNCHANGED <<scale, groundColor, nancyVars, globalObjectsByID, globalEntrancesByID,
                   resolving>>

\* the program runs and the area exists
Alive == ~crashed /\ lastOp.op # "~Area"

CanAllocate(st) == st.nextPtr <= FirstRuntimePtr + MaxAlloc

\* ids and kinds of the objects the game constructs and adds at run time
AddIDs == {1, 40000}
AddKinds ==
    { [type |-> kRectangleType, drawable |-> TRUE, planar |-> TRUE],
      [type |-> kEntranceType, drawable |-> FALSE, planar |-> FALSE] }
\* ids handed to removeObject and addObjectFromArea (9 is in neither global map)
RemoveIDs == {1, 40000}
FromAreaIDs == {1, 6, 7, 9}

AddObject ==
    /\ Alive
    /\ \E id \in AddIDs, k \in AddKinds :
          LET obj == NewObject(id, k.type, 0, Vec(0, 0, 0), Vec(2, 2, 2),
                               k.drawable, k.planar, k.drawable, <<>>, <<>>)
              st == addObject(Allocate(AreaState, obj), nextPtr)
          IN  /\ CanAllocate(st)
              /\ Commit(st, [op |-> "addObject", arg |-> obj, ret |-> nextPtr])

RemoveObject ==
    /\ Alive
    /\ \E u \in RemoveIDs :
          Commit(removeObject(AreaState, ToInt16(u)),
                 [op |-> "removeObject", arg |-> u, ret |-> <<>>])

AddObjectFromArea ==
    /\ Alive
    /\ \E u \in FromAreaIDs :
          LET st == addObjectFromArea(AreaState, ToInt16(u), scale)
          IN  /\ CanAllocate(st)
              /\ Commit(st, [op |-> "addObjectFromArea", arg |-> u, ret |-> nextPtr])

AddStructure ==
    /\ Alive
    /\ \E hasGlobal \in BOOLEAN :
          LET st == addStructure(AreaState, hasGlobal, groundColor, scale)
          IN  /\ CanAllocate(st)
              /\ Commit(st, [op |-> "addStructure", arg |-> hasGlobal, ret |-> nextPtr])

\* saved streams: the objects (key, flags, origin), then the remap pairs;
\* key 7 is in the global area's entrances map only
StreamEntry(key) ==
    [key |-> key, flags |-> FlagDestroyed + FlagInvisible, origin |-> Vec(1, 2, 3)]
Streams ==
    { [objects |-> <<StreamEntry(1)>>, remaps |-> << <<1, 2>> >>],
      [objects |-> <<StreamEntry(6), StreamEntry(1)>>, remaps |-> <<>>],
      [objects |-> <<StreamEntry(7)>>, remaps |-> <<>>] }

LoadObjects ==
    /\ Alive
    /\ \E stream \in Streams :
          LET st == loadObjects(AreaState, stream)
          IN  /\ CanAllocate(st)
              /\ Commit(st, [op |-> "loadObjects", arg |-> stream, ret |-> nextPtr])

ResetArea ==
    /\ Alive
    /\ Commit(resetArea(AreaState), [op |-> "resetArea", arg |-> <<>>, ret |-> <<>>])

SaveObjects ==
    /\ Alive
    /\ Commit(AreaState, [op |-> "saveObjects", arg |-> <<>>,
                          ret |-> saveObjects(AreaState)])

\* the area is destroyed; no operation follows
DestroyArea ==
    /\ Alive
    /\ Commit(AreaState, [op |-> "~Area", arg |-> <<>>,
                          ret |-> destroyArea(AreaState)])

Next ==
    \/ AddObject
    \/ RemoveObject
    \/ AddObjectFromArea
    \/ AddStructure
    \/ LoadObjects

Spec == Init /\ [][Next]_vars

\* the area between loads and resets: objects and entrances come from the
\* global area, flags, origins and remaps from the streams
NextReset ==
    \/ AddObjectFromArea
    \/ LoadObjects
    \/ ResetArea

SpecReset == Init /\ [][NextReset]_vars

\* the same area, also saved and destroyed
NextLife ==
    \/ AddObject
    \/ RemoveObject
    \/ AddObjectFromArea
    \/ AddStructure
    \/ LoadObjects
    \/ ResetArea
    \/ SaveObjects
    \/ DestroyArea

SpecLife == Init /\ [][NextLife]_vars

----------------------------------------------------------------------------
(* Geometry: Math::AABB, Math::Ray and the object's bounding box *)

Zero == RI(0)
One == RI(1)
LengthSq(v) == VDot(v, v)

\* Math::AABB as [min, max, valid]; getSize() == max - min
AABB(min, max) == [min |-> min, max |-> max, valid |-> TRUE]
InvalidAABB == [min |-> VZero, max |-> VZero, valid |-> FALSE]
getSize(box) == VSub(box.max, box.min)

\* Object::_boundingBox: origin .. origin + size once computed
BoundingBox(o) ==
    IF o.boxValid THEN AABB(o.origin, VAdd(o.origin, o.size)) ELSE InvalidAABB

\* Math::AABB::collides: the two boxes overlap on every axis
AABBCollides(a, b) ==
    \A k \in 1..3 : RGt(a.max[k], b.min[k]) /\ RLt(a.min[k], b.max[k])

\* GeometricObject::collides(box)
collides(o, box) ==
    /\ o.boxValid /\ box.valid
    /\ AABBCollides(BoundingBox(o), box)

\* Math::Ray::intersectAABB: the slab test, for parameters t >= 0
SlabLo(ray, box, k) ==
    RMin(RDiv(RSub(box.min[k], ray.origin[k]), ray.direction[k]),
         RDiv(RSub(box.max[k], ray.origin[k]), ray.direction[k]))
SlabHi(ray, box, k) ==
    RMax(RDiv(RSub(box.min[k], ray.origin[k]), ray.direction[k]),
         RDiv(RSub(box.max[k], ray.origin[k]), ray.direction[k]))
intersectAABB(ray, box) ==
    LET moving == {k \in 1..3 : ray.direction[k] # Zero}
    IN  /\ \A k \in (1..3) \ moving :
              RLe(box.min[k], ray.origin[k]) /\ RLe(ray.origin[k], box.max[k])
        /\ \A k \in moving : RGe(SlabHi(ray, box, k), Zero)
        /\ \A j, k \in moving : RLe(SlabLo(ray, box, j), SlabHi(ray, box, k))

\* Math::Vector3d::normalize, for vectors whose length is a whole number
ISqrt(n) == CHOOSE r \in 0..n : r * r = n
normalize(v) ==
    LET lsq == LengthSq(v)
    IN  IF lsq = Zero THEN v
        ELSE VScale(Rat(lsq[2], ISqrt(lsq[1] * lsq[2])), v)

\* createPlayerAABB(position, playerHeight)
createPlayerAABB(position, playerHeight) ==
    AABB(VSub(position, Vec(1, playerHeight, 1)), VAdd(position, Vec(1, 1, 1)))

----------------------------------------------------------------------------
(* Queries *)

\* float size = 16.0 * 8192.0
InitialSize == 131072

\* The size of shootRay is the initial number or the length of an extent
\* vector; a length is kept as its square, lengthSq.
\* A vector with a component beyond InitialSize is longer than InitialSize;
\* its square passes 32 bits and is not computed (over).
InitialSizeValue == [initial |-> TRUE, over |-> FALSE, lengthSq |-> Zero]
Over(v) ==
    \E k \in 1..3 : RGt(v[k], RI(InitialSize)) \/ RLt(v[k], RI(-InitialSize))
LengthValue(v) ==
    IF Over(v) THEN [initial |-> FALSE, over |-> TRUE, lengthSq |-> Zero]
    ELSE [initial |-> FALSE, over |-> FALSE, lengthSq |-> LengthSq(v)]

\* q <= InitialSize * InitialSize for a rational q >= 0, in 32-bit range
AtMostInitialSquared(q) ==
    (q[1] + InitialSize - 1) \div InitialSize <= InitialSize * q[2]

\* size >= objSize; size starts at InitialSize and only decreases, so it
\* is never at or above a length that is over
SizeGe(size, objSize) ==
    IF objSize.over THEN FALSE
    ELSE IF objSize.initial THEN size.initial
    ELSE IF size.initial THEN AtMostInitialSquared(objSize.lengthSq)
    ELSE RGe(size.lengthSq, objSize.lengthSq)

\* the loop of shootRay without the isDestroyed() test
RECURSIVE shootRayFrom_destroyed(_, _, _, _, _, _)
shootRayFrom_destroyed(h, view, ray, i, size, collided) ==
    IF i > Len(view) THEN collided
    ELSE LET obj == h[view[i]]
             objSize == LengthValue(obj.size)
         IN  IF /\ ~isInvisible(obj)
                /\ BoundingBox(obj).valid
                /\ intersectAABB(ray, BoundingBox(obj))
                /\ SizeGe(size, objSize)
             THEN shootRayFrom_destroyed(h, view, ray, i + 1, objSize, view[i])
             ELSE shootRayFrom_destroyed(h, view, ray, i + 1, size, collided)

\* the loop of shootRay without size = objSize: the last candidate wins
RECURSIVE shootRayFrom_sizeKept(_, _, _, _, _, _)
shootRayFrom_sizeKept(h, view, ray, i, size, collided) ==
    IF i > Len(view) THEN collided
    ELSE LET obj == h[view[i]]
             objSize == LengthValue(obj.size)
         IN  IF /\ ~isDestroyed(obj) /\ ~isInvisible(obj)
                /\ BoundingBox(obj).valid
                /\ intersectAABB(ray, BoundingBox(obj))
                /\ SizeGe(size, objSize)
             THEN shootRayFrom_sizeKept(h, view, ray, i + 1, size, view[i])
             ELSE shootRayFrom_sizeKept(h, view, ray, i + 1, size, collided)

\* the loop of Area::shootRay from index i
RECURSIVE shootRayFrom(_, _, _, _, _, _)
shootRayFrom(h, view, ray, i, size, collided) ==
    IF i > Len(view) THEN collided
    ELSE LET obj == h[view[i]]
             objSize == LengthValue(obj.size)
         IN  IF /\ ~isDestroyed(obj) /\ ~isInvisible(obj)
                /\ BoundingBox(obj).valid
                /\ intersectAABB(ray, BoundingBox(obj))
                /\ SizeGe(size, objSize)
             THEN shootRayFrom(h, view, ray, i + 1, objSize, view[i])
             ELSE shootRayFrom(h, view, ray, i + 1, size, collided)

\* Area::shootRay
shootRay(h, view, ray) == shootRayFrom(h, view, ray, 1, InitialSizeValue, NoObject)

\* the loop of checkCollisions without the isInvisible() test
RECURSIVE checkCollisionsFrom_invisible(_, _, _, _, _)
checkCollisionsFrom_invisible(h, view, box, i, collided) ==
    IF i > Len(view) THEN collided
    ELSE LET obj == h[view[i]]
         IN  IF ~isDestroyed(obj) /\ collides(obj, box)
             THEN checkCollisionsFrom_invisible(h, view, box, i + 1,
                                                Append(collided, view[i]))
             ELSE checkCollisionsFrom_invisible(h, view, box, i + 1, collided)

\* the loop of Area::checkCollisions from index i
RECURSIVE checkCollisionsFrom(_, _, _, _, _)
checkCollisionsFrom(h, view, box, i, collided) ==
    IF i > Len(view) THEN collided
    ELSE LET obj == h[view[i]]
         IN  IF ~isDestroyed(obj) /\ ~isInvisible(obj) /\ collides(obj, box)
             THEN checkCollisionsFrom(h, view, box, i + 1, Append(collided, view[i]))
             ELSE checkCollisionsFrom(h, view, box, i + 1, collided)

\* Area::checkCollisions
checkCollisions(h, view, box) == checkCollisionsFrom(h, view, box, 1, <<>>)

\* the probe of Area::checkInSight after point.setOrigin(origin)
ProbeObject(origin, maxDistance) ==
    NewObject(0, kCubeType, 0, origin,
              VScale(Rat(maxDistance, 30), Vec(1, 1, 1)), TRUE, FALSE, TRUE, <<>>, <<>>)

\* the inner loop of checkInSight without the kSensorType test
PointBlocked_sensors(h, view, point) ==
    \E i \in 1..Len(view) :
        LET obj == h[view[i]]
        IN  /\ ~isDestroyed(obj) /\ ~isInvisible(obj)
            /\ BoundingBox(obj).valid
            /\ collides(point, BoundingBox(obj))

\* the inner loop of Area::checkInSight: some object of the view blocks point
PointBlocked(h, view, point) ==
    \E i \in 1..Len(view) :
        LET obj == h[view[i]]
        IN  /\ obj.type # kSensorType
            /\ ~isDestroyed(obj) /\ ~isInvisible(obj)
            /\ BoundingBox(obj).valid
            /\ collides(point, BoundingBox(obj))

\* the outer loop of Area::checkInSight from distanceMultiplier
RECURSIVE checkInSightFrom(_, _, _, _, _, _)
checkInSightFrom(h, view, ray, direction, maxDistance, distanceMultiplier) ==
    IF distanceMultiplier > 10 THEN TRUE
    ELSE LET origin == VAdd(ray.origin,
                            VScale(RMul(RI(distanceMultiplier), Rat(maxDistance, 10)),
                                   direction))
         IN  IF PointBlocked(h, view, ProbeObject(origin, maxDistance)) THEN FALSE
             ELSE checkInSightFrom(h, view, ray, direction, maxDistance,
                                   distanceMultiplier + 1)

\* Area::checkInSight
checkInSight(h, view, ray, maxDistance) ==
    checkInSightFrom(h, view, ray, normalize(ray.direction), maxDistance, 2)

\* lineToPlane with 0 in place of INFINITY for a line along the plane
lineToPlane_zero(p, u, v, n) ==
    LET NdotU == VDot(n, u)
    IN  IF NdotU = Zero THEN Zero ELSE RDiv(VDot(n, VSub(v, p)), NdotU)

\* lineToPlane
lineToPlane(p, u, v, n) ==
    LET NdotU == VDot(n, u)
    IN  IF NdotU = Zero THEN RInfinity ELSE RDiv(VDot(n, VSub(v, p)), NdotU)

\* between
between(x, a, b) == RGe(x, a) /\ RLe(x, b)

\* a test of sweepAABB without the test of the sign of the motion
SweepFace_noTowards(r, m, mh, direction, n, k) ==
    Let(lineToPlane(VZero, direction, m, n), LAMBDA s :
        LET j1 == IF k = 1 THEN 2 ELSE 1
            j2 == IF k = 3 THEN 2 ELSE 3
        IN  IF /\ RGe(s, Zero) /\ RLt(s, r.h)
               /\ between(RMul(s, direction[j1]), m[j1], RAdd(m[j1], mh[j1]))
               /\ between(RMul(s, direction[j2]), m[j2], RAdd(m[j2], mh[j2]))
            THEN [h |-> s, normal |-> n]
            ELSE r)

\* one of the six tests of sweepAABB: the plane through m with normal n on
\* axis k; r is [h, normal] so far
SweepFace(r, m, mh, direction, n, k) ==
    Let(lineToPlane(VZero, direction, m, n), LAMBDA s :
        LET j1 == IF k = 1 THEN 2 ELSE 1
            j2 == IF k = 3 THEN 2 ELSE 3
            towards == IF RLt(n[k], Zero) THEN RGt(direction[k], Zero)
                       ELSE RLt(direction[k], Zero)
        IN  IF /\ RGe(s, Zero) /\ towards /\ RLt(s, r.h)
               /\ between(RMul(s, direction[j1]), m[j1], RAdd(m[j1], mh[j1]))
               /\ between(RMul(s, direction[j2]), m[j2], RAdd(m[j2], mh[j2]))
            THEN [h |-> s, normal |-> n]
            ELSE r)

\* m with m[k] + mh[k] on axis k
FarSide(m, mh, k) == [m EXCEPT ![k] = RAdd(m[k], mh[k])]

\* sweepAABB with m = b.getMin() - a.getMin()
sweepAABB_wrongMin(a, b, direction, normal) ==
    Let(VSub(b.min, a.min), LAMBDA m :
    Let(VAdd(getSize(a), getSize(b)), LAMBDA mh :
    Let(SweepFace([h |-> One, normal |-> normal], m, mh, direction, Vec(-1, 0, 0), 1), LAMBDA r1 :
    Let(SweepFace(r1, FarSide(m, mh, 1), mh, direction, Vec(1, 0, 0), 1), LAMBDA r2 :
    Let(SweepFace(r2, m, mh, direction, Vec(0, -1, 0), 2), LAMBDA r3 :
    Let(SweepFace(r3, FarSide(m, mh, 2), mh, direction, Vec(0, 1, 0), 2), LAMBDA r4 :
    Let(SweepFace(r4, m, mh, direction, Vec(0, 0, -1), 3), LAMBDA r5 :
        SweepFace(r5, FarSide(m, mh, 3), mh, direction, Vec(0, 0, 1), 3))))))))

\* sweepAABB(a, b, direction, normal): [h, normal]; the tests are made in
\* the order X min, X max, Y min, Y max, Z min, Z max
sweepAABB(a, b, direction, normal) ==
    Let(VSub(b.min, a.max), LAMBDA m :
    Let(VAdd(getSize(a), getSize(b)), LAMBDA mh :
    Let(SweepFace([h |-> One, normal |-> normal], m, mh, direction, Vec(-1, 0, 0), 1), LAMBDA r1 :
    Let(SweepFace(r1, FarSide(m, mh, 1), mh, direction, Vec(1, 0, 0), 1), LAMBDA r2 :
    Let(SweepFace(r2, m, mh, direction, Vec(0, -1, 0), 2), LAMBDA r3 :
    Let(SweepFace(r3, FarSide(m, mh, 2), mh, direction, Vec(0, 1, 0), 2), LAMBDA r4 :
    Let(SweepFace(r4, m, mh, direction, Vec(0, 0, -1), 3), LAMBDA r5 :
        SweepFace(r5, FarSide(m, mh, 3), mh, direction, Vec(0, 0, 1), 3))))))))

\* float epsilon = 1.5
Epsilon == Rat(3, 2)
\* assert(i <= 5)
MaxPasses == 5

\* the for loop of Area::resolveCollisions from index i; r is
\* [distance, normal] so far
RECURSIVE sweepObjectsFrom(_, _, _, _, _, _)
sweepObjectsFrom(h, view, boundingBox, direction, i, r) ==
    IF i > Len(view) THEN r
    ELSE LET obj == h[view[i]]
         IN  IF isDestroyed(obj) \/ isInvisible(obj)
             THEN sweepObjectsFrom(h, view, boundingBox, direction, i + 1, r)
             ELSE Let(sweepAABB(boundingBox, BoundingBox(obj), direction, VZero),
                      LAMBDA c :
                        IF RLt(c.h, r.distance)
                        THEN sweepObjectsFrom(h, view, boundingBox, direction, i + 1,
                                              [distance |-> c.h, normal |-> c.normal])
                        ELSE sweepObjectsFrom(h, view, boundingBox, direction, i + 1, r))

\* the while loop with the push applied along the motion as well:
\* position = lastPosition + distance * direction - epsilon * direction
RECURSIVE resolveLoop_pushAlways(_, _, _, _, _, _, _)
resolveLoop_pushAlways(h, view, boundingBox, lastPosition, position, i, passes) ==
    Let(VSub(position, lastPosition), LAMBDA direction :
    Let(sweepObjectsFrom(h, view, boundingBox, direction, 1,
                         [distance |-> One, normal |-> VZero]), LAMBDA r :
    Let(VSub(VAdd(lastPosition, VScale(r.distance, direction)),
             VScale(Epsilon, direction)), LAMBDA next :
    Let(Append(passes, [direction |-> direction, distance |-> r.distance,
                        normal |-> r.normal]), LAMBDA log :
        IF RGe(r.distance, One)
        THEN [position |-> next, passes |-> log, failed |-> FALSE]
        ELSE IF i + 1 > MaxPasses
        THEN [position |-> next, passes |-> log, failed |-> TRUE]
        ELSE resolveLoop_pushAlways(h, view, boundingBox, lastPosition, next,
                                    i + 1, log)))))

\* the while loop without the epsilon term:
\* position = lastPosition + distance * direction
RECURSIVE resolveLoop_noSkin(_, _, _, _, _, _, _)
resolveLoop_noSkin(h, view, boundingBox, lastPosition, position, i, passes) ==
    Let(VSub(position, lastPosition), LAMBDA direction :
    Let(sweepObjectsFrom(h, view, boundingBox, direction, 1,
                         [distance |-> One, normal |-> VZero]), LAMBDA r :
    Let(VAdd(lastPosition, VScale(r.distance, direction)), LAMBDA next :
    Let(Append(passes, [direction |-> direction, distance |-> r.distance,
                        normal |-> r.normal]), LAMBDA log :
        IF RGe(r.distance, One)
        THEN [position |-> next, passes |-> log, failed |-> FALSE]
        ELSE IF i + 1 > MaxPasses
        THEN [position |-> next, passes |-> log, failed |-> TRUE]
        ELSE resolveLoop_noSkin(h, view, boundingBox, lastPosition, next,
                                i + 1, log)))))

\* the while loop with assert(i <= 4)
RECURSIVE resolveLoop_earlyAssert(_, _, _, _, _, _, _)
resolveLoop_earlyAssert(h, view, boundingBox, lastPosition, position, i, passes) ==
    Let(VSub(position, lastPosition), LAMBDA direction :
    Let(sweepObjectsFrom(h, view, boundingBox, direction, 1,
                         [distance |-> One, normal |-> VZero]), LAMBDA r :
    Let(VAdd(VAdd(lastPosition, VScale(r.distance, direction)),
             VScale(Epsilon, r.normal)), LAMBDA next :
    Let(Append(passes, [direction |-> direction, distance |-> r.distance,
                        normal |-> r.normal]), LAMBDA log :
        IF RGe(r.distance, One)
        THEN [position |-> next, passes |-> log, failed |-> FALSE]
        ELSE IF i + 1 > MaxPasses - 1
        THEN [position |-> next, passes |-> log, failed |-> TRUE]
        ELSE resolveLoop_earlyAssert(h, view, boundingBox, lastPosition, next,
                                     i + 1, log)))))

\* the while loop of Area::resolveCollisions; i passes were obstructed so
\* far.  The result is [position, passes, failed], failed when assert(i <= 5)
\* fails; passes lists [direction, distance, normal] of every pass.
RECURSIVE resolveLoop(_, _, _, _, _, _, _)
resolveLoop(h, view, boundingBox, lastPosition, position, i, passes) ==
    Let(VSub(position, lastPosition), LAMBDA direction :
    Let(sweepObjectsFrom(h, view, boundingBox, direction, 1,
                         [distance |-> One, normal |-> VZero]), LAMBDA r :
    Let(VAdd(VAdd(lastPosition, VScale(r.distance, direction)),
             VScale(Epsilon, r.normal)), LAMBDA next :
    Let(Append(passes, [direction |-> direction, distance |-> r.distance,
                        normal |-> r.normal]), LAMBDA log :
        IF RGe(r.distance, One)
        THEN [position |-> next, passes |-> log, failed |-> FALSE]
        ELSE IF i + 1 > MaxPasses
        THEN [position |-> next, passes |-> log, failed |-> TRUE]
        ELSE resolveLoop(h, view, boundingBox, lastPosition, next, i + 1, log)))))

\* Area::resolveCollisions(lastPosition_, newPosition_, playerHeight)
resolveCollisions(h, view, lastPosition, newPosition, playerHeight) ==
    resolveLoop(h, view, createPlayerAABB(lastPosition, playerHeight),
                lastPosition, newPosition, 0, <<>>)

----------------------------------------------------------------------------
(* The queries as actions, on scenes built from walls, a floor, a switch,  *)
(* a sensor and an object without bounding box                             *)

SceneObjects ==
    << \* 1: a wall across the x axis
       NewObject(10, kCubeType, 0, Vec(10, 0, -20), Vec(2, 10, 40), TRUE, FALSE, TRUE, <<>>, <<>>),
       \* 2: a wall across the z axis, meeting wall 1 in a corner
       NewObject(11, kCubeType, 0, Vec(-20, 0, 10), Vec(40, 10, 2), TRUE, FALSE, TRUE, <<>>, <<>>),
       \* 3: a wall facing wall 1, three units from it
       NewObject(12, kCubeType, 0, Vec(5, 0, -20), Vec(2, 10, 40), TRUE, FALSE, TRUE, <<>>, <<>>),
       \* 4: the floor
       NewObject(13, kCubeType, 0, Vec(-20, -1, -20), Vec(40, 1, 40), TRUE, FALSE, TRUE, <<>>, <<>>),
       \* 5: a switch, a rectangle on the face of wall 1
       NewObject(14, kRectangleType, 0, Vec(10, 1, -1), Vec(0, 2, 2), TRUE, TRUE, TRUE, <<>>, <<>>),
       \* 6: a sensor behind wall 1
       NewObject(15, kSensorType, 0, Vec(13, 0, -1), Vec(2, 4, 2), TRUE, FALSE, TRUE, <<>>, <<>>),
       \* 7: a drawable object whose bounding box was never computed
       NewObject(16, kGroupType, 0, Vec(0, 0, 0), Vec(1, 1, 1), TRUE, FALSE, FALSE, <<>>, <<>>) >>

\* the scenes: the objects (by index) of the level build
Scenes ==
    { {1}, {2}, {4}, {1, 2, 4}, {1, 3}, {1, 5, 6}, {5, 6, 7} }

\* Area::Area on the objects map of one of the scenes, without global area
InitScenes(objects, scenes) ==
    /\ globalObjectsByID = EmptyMap
    /\ globalEntrancesByID = EmptyMap
    /\ NoConversation
    /\ scale = 2
    /\ \E scene \in scenes :
          /\ heap = [p \in 1..Len(objects) |-> objects[p]]
          /\ objectsByID = [id \in {objects[i].id : i \in scene} |->
                              CHOOSE i \in scene : objects[i].id = id]
          /\ entrancesByID = EmptyMap
          /\ drawableObjects = InitialView(heap, objectsByID)
          /\ addedObjects = EmptyMap
          /\ colorRemaps = EmptyMap
          /\ groundColor = 255
          /\ nextPtr = Len(objects) + 1
          /\ lastOp = NoOp
          /\ crashed = FALSE
          /\ resolving = Idle

InitQuery == InitScenes(SceneObjects, Scenes)

\* the objects the game destroys (wall 1, the switch) and hides (wall 3,
\* the sensor)
DestroyIDs == {10, 14}
InvisibleIDs == {12, 15}

\* Object::destroy through a pointer the game got from objectWithID
Destroy ==
    /\ ~crashed
    /\ \E id \in DestroyIDs \cap DOMAIN objectsByID :
          /\ ~isDestroyed(heap[objectsByID[id]])
          /\ heap' = [heap EXCEPT ![objectsByID[id]].flags = SetBit(@, FlagDestroyed)]
          /\ lastOp' = [op |-> "destroy", arg |-> id, ret |-> <<>>]
    /\ UNCHANGED <<areaVars, colorRemaps, scale, groundColor, nancyVars, globalVars, nextPtr, crashed, resolving>>

\* Object::makeInvisible through a pointer the game got from objectWithID
MakeInvisible ==
    /\ ~crashed
    /\ \E id \in InvisibleIDs \cap DOMAIN objectsByID :
          /\ ~isInvisible(heap[objectsByID[id]])
          /\ heap' = [heap EXCEPT ![objectsByID[id]].flags = SetBit(@, FlagInvisible)]
          /\ lastOp' = [op |-> "makeInvisible", arg |-> id, ret |-> <<>>]
    /\ UNCHANGED <<areaVars, colorRemaps, scale, groundColor, nancyVars, globalVars, nextPtr, crashed, resolving>>

\* a query changes nothing; its arguments and result are recorded
Query(op, arg, ret) ==
    /\ lastOp' = [op |-> op, arg |-> arg, ret |-> ret]
    /\ UNCHANGED <<heap, areaVars, colorRemaps, scale, groundColor, nancyVars, globalVars,
                   nextPtr, crashed, resolving>>

Ray(origin, direction) == [origin |-> origin, direction |-> direction]
Rays ==
    { Ray(Vec(0, 2, 0), Vec(1, 0, 0)), Ray(Vec(1, 2, 0), Vec(2, 0, 0)),
      Ray(Vec(0, 2, 0), Vec(0, 0, 1)), Ray(Vec(0, 2, 0), Vec(-1, 0, 0)),
      Ray(Vec(0, 2, 0), Vec(3, 0, 4)), Ray(Vec(0, 5, 0), Vec(0, -1, 0)) }
Boxes ==
    { AABB(Vec(7, 0, -1), Vec(9, 3, 1)), AABB(Vec(9, 0, -2), Vec(14, 3, 2)),
      AABB(Vec(-30, -30, -30), Vec(30, 30, 30)), AABB(Vec(40, 0, 40), Vec(41, 1, 41)) }
MaxDistances == {30, 60}
LastPositions == {Vec(0, 2, 0), Vec(8, 2, 0), Vec(8, 2, 8)}
NewPositions ==
    LastPositions \cup {Vec(20, 2, 0), Vec(20, 2, 20), Vec(0, 2, 20), Vec(4, 2, 3),
                        Vec(0, -5, 0), Vec(11, 2, 0)}
PlayerHeights == {2}

\* shootRay marking the object it returns as destroyed
ShootRay_destroying ==
    /\ ~crashed
    /\ \E ray \in Rays :
          LET collided == shootRay(heap, drawableObjects, ray)
          IN  /\ lastOp' = [op |-> "shootRay", arg |-> ray, ret |-> collided]
              /\ heap' = IF collided = NoObject THEN heap
                         ELSE [heap EXCEPT ![collided].flags = SetBit(@, FlagDestroyed)]
    /\ UNCHANGED <<areaVars, colorRemaps, scale, groundColor, nancyVars, globalVars, nextPtr,
                   crashed, resolving>>

ShootRay ==
    /\ ~crashed
    /\ \E ray \in Rays :
          Query("shootRay", ray, shootRay(heap, drawableObjects, ray))

CheckCollisions ==
    /\ ~crashed
    /\ \E box \in Boxes :
          Query("checkCollisions", box, checkCollisions(heap, drawableObjects, box))

CheckInSight ==
    /\ ~crashed
    /\ \E ray \in Rays, maxDistance \in MaxDistances :
          Query("checkInSight", [ray |-> ray, maxDistance |-> maxDistance],
                checkInSight(heap, drawableObjects, ray, maxDistance))

ResolveCollisions ==
    /\ ~crashed
    /\ \E lastPosition \in LastPositions, newPosition \in NewPositions,
          playerHeight \in PlayerHeights :
          LET r == resolveCollisions(heap, drawableObjects, lastPosition,
                                     newPosition, playerHeight)
          IN  /\ lastOp' = [op |-> "resolveCollisions",
                            arg |-> [lastPosition |-> lastPosition,
                                     newPosition |-> newPosition,
                                     playerHeight |-> playerHeight],
                            ret |-> r]
              /\ crashed' = r.failed
              /\ UNCHANGED <<heap, areaVars, colorRemaps, scale, groundColor, nancyVars,
                             globalVars, nextPtr, resolving>>

NextQuery ==
    \/ Destroy
    \/ MakeInvisible
    \/ ShootRay
    \/ CheckCollisions
    \/ CheckInSight

\* the ray and overlap queries on every scene
SpecQuery == InitQuery /\ [][NextQuery]_vars

\* the scenes with the ground slab of a wide area, longer than InitialSize
WideObjects ==
    SceneObjects \o
    << NewObject(17, kCubeType, 0, Vec(-100000, -1, -100000), Vec(200000, 1, 200000),
                 TRUE, FALSE, TRUE, <<>>, <<>>) >>
WideScenes == { {8}, {1, 8}, {4, 8}, {1, 3, 8}, {1, 2, 4, 8}, {1, 5, 6, 8} }

InitWide == InitScenes(WideObjects, WideScenes)

NextWide ==
    \/ Destroy
    \/ MakeInvisible
    \/ ShootRay

\* the ray query over a wide area
SpecWide == InitWide /\ [][NextWide]_vars

NextCollide ==
    \/ Destroy
    \/ MakeInvisible
    \/ ResolveCollisions

\* the collision resolver on every scene
SpecCollide == InitQuery /\ [][NextCollide]_vars

----------------------------------------------------------------------------
(* Drawing: Area::draw and Area::drawGroup as the calls they make on the   *)
(* renderer and on the groups                                              *)

\* a Group: an object with its sub-objects (_objects, pointers) and its
\* frames (_objectPositions)
NewGroup(id, flags, objects, objectPositions) ==
    [id |-> id, type |-> kGroupType, flags |-> flags, origin |-> Vec(0, 0, 0),
     size |-> Vec(1, 1, 1), drawable |-> TRUE, planar |-> FALSE,
     boxValid |-> FALSE, colors |-> <<>>, structure |-> <<>>,
     objects |-> objects, objectPositions |-> objectPositions]

\* obj->draw(gfx) and group->assemble(frame, index) as calls
DrawCall(ptr) == [call |-> "draw", obj |-> ptr]
AssembleCall(ptr, frame, index) ==
    [call |-> "assemble", obj |-> ptr, frame |-> frame, index |-> index]

\* (ticks / 10) % frameSize on uint32: the division cannot wrap
FrameOf(ticks, frameSize) == (ticks \div 10) % frameSize

\* the loop of Area::drawGroup from index i (0-based, as in the code)
RECURSIVE drawGroupFrom(_, _, _, _, _)
drawGroupFrom(h, group, ticks, i, calls) ==
    LET groupSize == Len(h[group].objects)
        frameSize == Len(h[group].objectPositions)
    IN  IF i >= groupSize THEN calls
        ELSE drawGroupFrom(h, group, ticks, i + 1,
                 calls \o << AssembleCall(group, FrameOf(ticks, frameSize), i),
                             DrawCall(h[group].objects[i + 1]) >>)

\* Area::drawGroup
drawGroup(h, group, ticks) == drawGroupFrom(h, group, ticks, 0, <<>>)

\* the loop of Area::draw without the isInvisible() test
RECURSIVE drawFrom_invisible(_, _, _, _, _)
drawFrom_invisible(h, view, ticks, i, calls) ==
    IF i > Len(view) THEN calls
    ELSE LET obj == h[view[i]]
         IN  IF ~isDestroyed(obj)
             THEN IF obj.type # kGroupType
                  THEN drawFrom_invisible(h, view, ticks, i + 1,
                                          Append(calls, DrawCall(view[i])))
                  ELSE drawFrom_invisible(h, view, ticks, i + 1,
                                          calls \o drawGroup(h, view[i], ticks))
             ELSE drawFrom_invisible(h, view, ticks, i + 1, calls)

\* the loop of Area::draw from index i
RECURSIVE drawFrom(_, _, _, _, _)
drawFrom(h, view, ticks, i, calls) ==
    IF i > Len(view) THEN calls
    ELSE LET obj == h[view[i]]
         IN  IF ~isDestroyed(obj) /\ ~isInvisible(obj)
             THEN IF obj.type # kGroupType
                  THEN drawFrom(h, view, ticks, i + 1, Append(calls, DrawCall(view[i])))
                  ELSE drawFrom(h, view, ticks, i + 1,
                                calls \o drawGroup(h, view[i], ticks))
             ELSE drawFrom(h, view, ticks, i + 1, calls)

\* Area::draw: [failed, calls], failed when assert(_drawableObjects.size() > 0)
\* fails
draw(h, view, ticks) ==
    IF Len(view) = 0 THEN [failed |-> TRUE, calls |-> <<>>]
    ELSE [failed |-> FALSE, calls |-> drawFrom(h, view, ticks, 1, <<>>)]

\* the objects of the drawn areas: two walls, a switch, the parts of two
\* groups (held by the groups only), a group of two parts with three frames,
\* a group of one part with one frame, and an entrance that is not drawable
DrawObjects ==
    << NewObject(10, kCubeType, 0, Vec(10, 0, -20), Vec(2, 10, 40), TRUE, FALSE, TRUE, <<>>, <<>>),
       NewObject(12, kCubeType, 0, Vec(5, 0, -20), Vec(2, 10, 40), TRUE, FALSE, TRUE, <<>>, <<>>),
       NewObject(14, kRectangleType, 0, Vec(10, 1, -1), Vec(0, 2, 2), TRUE, TRUE, TRUE, <<>>, <<>>),
       NewObject(20, kCubeType, 0, Vec(0, 0, 0), Vec(1, 1, 1), TRUE, FALSE, TRUE, <<>>, <<>>),
       NewObject(21, kCubeType, FlagInvisible, Vec(2, 0, 0), Vec(1, 1, 1), TRUE, FALSE, TRUE, <<>>, <<>>),
       NewGroup(16, 0, <<4, 5>>, <<Vec(0, 0, 0), Vec(0, 1, 0), Vec(0, 2, 0)>>),
       NewGroup(15, 0, <<4>>, <<Vec(0, 0, 0)>>),
       NewObject(30, kEntranceType, 0, Vec(0, 0, 0), Vec(0, 0, 0), FALSE, FALSE, FALSE, <<>>, <<>>) >>

\* the drawn areas: the objects (by index) of the objects map
DrawScenes == { {1, 2, 3}, {1, 6, 3}, {6, 7, 2}, {1, 2, 3, 6, 7}, {8} }

InitDraw == InitScenes(DrawObjects, DrawScenes)

\* the tick counts handed to draw
Ticks == {0, 9, 10, 25, 40}

Draw ==
    /\ ~crashed
    /\ \E ticks \in Ticks :
          LET r == draw(heap, drawableObjects, ticks)
          IN  /\ lastOp' = [op |-> "draw", arg |-> ticks, ret |-> r.calls]
              /\ crashed' = r.failed
              /\ UNCHANGED <<heap, areaVars, colorRemaps, scale, groundColor, nancyVars,
                             globalVars, nextPtr, resolving>>

NextDraw ==
    \/ Destroy
    \/ MakeInvisible
    \/ Draw

\* the frames drawn of every area, between destructions and hidings
SpecDraw == InitDraw /\ [][NextDraw]_vars

----------------------------------------------------------------------------
(* Lookups: Area::objectWithID and Area::entranceWithID as actions *)

\* Area::objectWithID(uint16 objectID)
objectWithID(st, objectID) == objectWithIDFromMap(st.objectsByID, objectID)

\* Area::entranceWithID(uint16 objectID)
entranceWithID(st, objectID) == objectWithIDFromMap(st.entrancesByID, objectID)

\* the ids looked up: 1 is an object of every build, 9 an entrance only, 6
\* and 7 come from the global area, 255 is the template, 40000 is nowhere
LookupIDs == {1, 6, 7, 9, 10, 15, 255, 40000}

ObjectWithID ==
    /\ Alive
    /\ \E id \in LookupIDs :
          Query("objectWithID", id, objectWithID(AreaState, id))

EntranceWithID ==
    /\ Alive
    /\ \E id \in LookupIDs :
          Query("entranceWithID", id, entranceWithID(AreaState, id))

NextLookup ==
    \/ AddObjectFromArea
    \/ RemoveObject
    \/ ObjectWithID
    \/ EntranceWithID

\* the lookups on the area while objects come from the global area and go
SpecLookup == Init /\ [][NextLookup]_vars

----------------------------------------------------------------------------
(* Area::resolveCollisions pass by pass: resolving holds the locals of    *)
(* the running call                                                        *)

\* the entry of Area::resolveCollisions: position, lastPosition,
\* boundingBox and i before the loop (args and passes are kept for lastOp)
resolveEnter(lastPosition, newPosition, playerHeight) ==
    [pc |-> "loop",
     position |-> newPosition,
     lastPosition |-> lastPosition,
     boundingBox |-> createPlayerAABB(lastPosition, playerHeight),
     i |-> 0,
     args |-> [lastPosition |-> lastPosition, newPosition |-> newPosition,
               playerHeight |-> playerHeight],
     passes |-> <<>>]

\* one pass of the loop that does not leave at distance >= 1.0
resolvePass_noBreak(h, view, call) ==
    Let(VSub(call.position, call.lastPosition), LAMBDA direction :
    Let(sweepObjectsFrom(h, view, call.boundingBox, direction, 1,
                         [distance |-> One, normal |-> VZero]), LAMBDA r :
    Let(VAdd(VAdd(call.lastPosition, VScale(r.distance, direction)),
             VScale(Epsilon, r.normal)), LAMBDA next :
    Let(Append(call.passes, [direction |-> direction, distance |-> r.distance,
                             normal |-> r.normal]), LAMBDA log :
        IF RGe(r.distance, One)
        THEN [call EXCEPT !.position = next]
        ELSE IF call.i + 1 > MaxPasses
        THEN [call EXCEPT !.pc = "assert", !.position = next, !.i = call.i + 1,
                          !.passes = log]
        ELSE [call EXCEPT !.position = next, !.i = call.i + 1, !.passes = log]))))

\* one pass of the while loop of Area::resolveCollisions: the sweep over
\* the view, the new position, and then break (pc "return"), the failed
\* assert(i <= 5) (pc "assert") or the next pass (pc "loop")
resolvePass(h, view, call) ==
    Let(VSub(call.position, call.lastPosition), LAMBDA direction :
    Let(sweepObjectsFrom(h, view, call.boundingBox, direction, 1,
                         [distance |-> One, normal |-> VZero]), LAMBDA r :
    Let(VAdd(VAdd(call.lastPosition, VScale(r.distance, direction)),
             VScale(Epsilon, r.normal)), LAMBDA next :
    Let(Append(call.passes, [direction |-> direction, distance |-> r.distance,
                             normal |-> r.normal]), LAMBDA log :
        IF RGe(r.distance, One)
        THEN [call EXCEPT !.pc = "return", !.position = next, !.passes = log]
        ELSE IF call.i + 1 > MaxPasses
        THEN [call EXCEPT !.pc = "assert", !.position = next, !.i = call.i + 1,
                          !.passes = log]
        ELSE [call EXCEPT !.position = next, !.i = call.i + 1, !.passes = log]))))

\* the game calls resolveCollisions
ResolveEnter ==
    /\ ~crashed /\ resolving = Idle
    /\ \E lastPosition \in LastPositions, newPosition \in NewPositions,
          playerHeight \in PlayerHeights :
          /\ resolving' = resolveEnter(lastPosition, newPosition, playerHeight)
          /\ lastOp' = [op |-> "resolveCollisions enter",
                        arg |-> resolving'.args, ret |-> <<>>]
    /\ UNCHANGED <<heap, areaVars, colorRemaps, scale, groundColor, nancyVars, globalVars,
                   nextPtr, crashed>>

\* the running call makes one pass; it goes on, returns or aborts
ResolvePass ==
    /\ ~crashed /\ resolving.pc = "loop"
    /\ \E call \in {resolvePass(heap, drawableObjects, resolving)} :
           IF call.pc = "loop"
           THEN /\ resolving' = call
                /\ UNCHANGED <<lastOp, crashed>>
           ELSE /\ resolving' = Idle
                /\ crashed' = (call.pc = "assert")
                /\ lastOp' = [op |-> "resolveCollisions", arg |-> call.args,
                              ret |-> [position |-> call.position,
                                       passes |-> call.passes,
                                       failed |-> call.pc = "assert"]]
    /\ UNCHANGED <<heap, areaVars, colorRemaps, scale, groundColor, nancyVars, globalVars,
                   nextPtr>>

\* objects are destroyed and hidden between the calls only
NextResolve ==
    \/ resolving = Idle /\ Destroy
    \/ resolving = Idle /\ MakeInvisible
    \/ ResolveEnter
    \/ ResolvePass

\* the collision resolver pass by pass; a running call goes on
SpecResolve == InitQuery /\ [][NextResolve]_vars /\ WF_vars(ResolvePass)

----------------------------------------------------------------------------
(* sweepAABB on its own: the player box at a position against the box of *)
(* an object of the scene                                                  *)

\* the motions swept and the normals the caller passes in
SweepDirections ==
    { VZero, Vec(20, 0, 0), Vec(-20, 0, 0), Vec(0, -5, 0), Vec(0, 5, 0),
      Vec(0, 0, 20), Vec(0, 0, -20), Vec(20, 0, 20), Vec(12, 0, 20),
      Vec(3, -1, 0), Vec(1, 0, 0), Vec(12, -1, 20) }
SweepNormals == { VZero, Vec(7, 7, 7) }

SweepAABB ==
    /\ ~crashed
    /\ \E position \in LastPositions, playerHeight \in PlayerHeights,
          i \in 1..Len(drawableObjects), direction \in SweepDirections,
          normal \in SweepNormals :
          LET a == createPlayerAABB(position, playerHeight)
              b == BoundingBox(heap[drawableObjects[i]])
          IN  Query("sweepAABB",
                    [a |-> a, b |-> b, direction |-> direction, normal |-> normal],
                    sweepAABB(a, b, direction, normal))

NextSweep == SweepAABB

\* sweepAABB on every scene
SpecSweep == InitQuery /\ [][NextSweep]_vars

----------------------------------------------------------------------------
(* The queries together *)

\* Area::getSensors: the sensors of the objects map, in its storage order
getSensors(st) ==
    SelectSeq([i \in 1..Cardinality(DOMAIN st.objectsByID) |->
                  st.objectsByID[StorageOrder(DOMAIN st.objectsByID)[i]]],
              LAMBDA ptr : st.heap[ptr].type = kSensorType)

GetSensors ==
    /\ Alive
    /\ Query("getSensors", <<>>, getSensors(AreaState))

NextReadOnly ==
    \/ Destroy
    \/ MakeInvisible
    \/ ShootRay
    \/ CheckCollisions
    \/ CheckInSight
    \/ ResolveCollisions
    \/ GetSensors
    \/ ObjectWithID
    \/ EntranceWithID

\* every query on every scene
SpecReadOnly == InitQuery /\ [][NextReadOnly]_vars

----------------------------------------------------------------------------
(* Color remaps on their own *)

\* Area::unremapColor: _colorRemaps.clear(index) is Common::HashMap::clear
\* (bool shrinkArray), which empties the table whatever its argument is
unremapColor(st, index) == [st EXCEPT !.colorRemaps = EmptyMap]

RemapIndexes == {0, 1, 2}
RemapColors == {0, 4, 15}

RemapColor ==
    /\ Alive
    /\ \E index \in RemapIndexes, color \in RemapColors :
          Commit(remapColor(AreaState, index, color),
                 [op |-> "remapColor", arg |-> <<index, color>>, ret |-> <<>>])

UnremapColor ==
    /\ Alive
    /\ \E index \in RemapIndexes :
          Commit(unremapColor(AreaState, index),
                 [op |-> "unremapColor", arg |-> index, ret |-> <<>>])

NextRemap ==
    \/ RemapColor
    \/ UnremapColor

SpecRemap == Init /\ [][NextRemap]_vars

----------------------------------------------------------------------------
(* engines/nancy: ConversationSound::execute, with the textbox and the     *)
(* sounds around it.  A conversation is named by its index in             *)
(* conversations; 0 stands for nullptr.  _pickedResponse and the logic    *)
(* condition labels count from 0 as in the source, sequences from 1.      *)

kBegin == "kBegin"
kRun == "kRun"
kActionTrigger == "kActionTrigger"

\* the loop bound of the search for a set logic condition
NumLogicConditions == 30

\* the largest number of responses read for a conversation
MaxResponses == 3

\* ResponseStruct: conditionFlags.isSatisfied() as a value, isOnScreen and
\* the scene of sceneChange
ResponseStruct(satisfied, sceneChange) ==
    [satisfied |-> satisfied, isOnScreen |-> FALSE, sceneChange |-> sceneChange]

\* a ConversationSound after readData: appended are the responses that
\* addConditionalDialogue and addGoodbye push, sceneBranchStructs hold
\* conditions.isSatisfied() as a value
NewConversation(responses, appended, sceneBranchStructs, defaultNextScene, popNextScene, sceneChange) ==
    [state |-> kBegin, pickedResponse |-> -1, hasDrawnTextbox |-> FALSE,
     isDone |-> FALSE, visible |-> TRUE, responses |-> responses,
     appended |-> appended, sceneBranchStructs |-> sceneBranchStructs,
     defaultNextScene |-> defaultNextScene, popNextScene |-> popNextScene,
     sceneChange |-> sceneChange]

\* _sound and _responseGenericSound of a conversation
Sound(this) == <<this, "sound">>
ResponseSound(this) == <<this, "response">>

\* the calls execute makes on the scene and on itself
ChangeScene(scene) == [call |-> "changeScene", scene |-> scene]
PopScene == [call |-> "popScene", scene |-> 0]
FinishExecution == [call |-> "finishExecution", scene |-> 0]

SceneState ==
    [conversations |-> conversations, activeConversation |-> activeConversation,
     soundsPlaying |-> soundsPlaying, hotspots |-> hotspots, crashed |-> FALSE,
     calls |-> <<>>]

\* the head of execute looking at _isDone of the active conversation only
Blocked_notDone(sc, this) ==
    LET active == sc.activeConversation
    IN  /\ active # this /\ active # 0
        /\ ~sc.conversations[active].isDone

\* the head of execute: another conversation is active and is not done,
\* has its default next scene enabled or has a picked response
Blocked(sc, this) ==
    LET active == sc.activeConversation
    IN  /\ active # this /\ active # 0
        /\ \/ ~sc.conversations[active].isDone
           \/ sc.conversations[active].defaultNextScene
           \/ sc.conversations[active].pickedResponse # -1

\* chained videos: the previous conversation is hidden and this one is active
TakeOver(sc, this) ==
    LET active == sc.activeConversation
    IN  IF active # this /\ active # 0
        THEN [sc EXCEPT !.conversations[active].visible = FALSE,
                        !.activeConversation = this]
        ELSE sc

\* case kBegin
executeBegin(sc, this, characterSpeech) ==
    [sc EXCEPT !.soundsPlaying = IF characterSpeech THEN @ \cup {Sound(this)} ELSE @,
               !.conversations[this].state = kRun,
               !.activeConversation = this]

\* case kRun, if (!_hasDrawnTextbox): the textbox is cleared, the pushed
\* responses are appended and every satisfied response gets its line
DrawTextbox(sc, this) ==
    LET conv == sc.conversations[this]
        all == conv.responses \o conv.appended
        shown == [j \in 1..Len(all) |->
                    IF all[j].satisfied THEN [all[j] EXCEPT !.isOnScreen = TRUE]
                    ELSE all[j]]
    IN  [sc EXCEPT !.conversations[this].hasDrawnTextbox = TRUE,
                   !.conversations[this].appended = <<>>,
                   !.conversations[this].responses = shown,
                   !.hotspots = Cardinality({j \in 1..Len(all) : all[j].satisfied})]

\* the first i below 30 whose logic condition is set, or -1
FirstLogicCondition(conditions) ==
    IF conditions \cap 0..(NumLogicConditions - 1) = {} THEN -1
    ELSE CHOOSE i \in conditions \cap 0..(NumLogicConditions - 1) :
            \A k \in conditions \cap 0..(NumLogicConditions - 1) : i <= k

\* "Adjust to account for hidden responses": the loop over j, from j on
RECURSIVE adjustPicked(_, _, _, _)
adjustPicked(responses, pickedOnScreenResponse, pickedResponse, j) ==
    IF j >= Len(responses) THEN pickedResponse
    ELSE LET picked == IF ~responses[j + 1].isOnScreen
                       THEN pickedResponse + 1 ELSE pickedResponse
         IN  IF j = pickedOnScreenResponse THEN picked
             ELSE adjustPicked(responses, pickedOnScreenResponse, picked, j + 1)

\* case kRun
executeRun(sc0, this, conditions, videoDone, playerSpeech) ==
    LET sc == IF sc0.conversations[this].hasDrawnTextbox THEN sc0
              ELSE DrawTextbox(sc0, this)
        conv == sc.conversations[this]
    IN  IF Sound(this) \in sc.soundsPlaying \/ ~videoDone THEN sc
        ELSE IF \A j \in 1..Len(conv.responses) : ~conv.responses[j].isOnScreen
        THEN [sc EXCEPT !.conversations[this].state = kActionTrigger]
        ELSE LET i == FirstLogicCondition(conditions)
                 picked == IF i = -1 THEN conv.pickedResponse
                           ELSE adjustPicked(conv.responses, i, i, 0)
             IN  IF picked = -1 THEN sc
                 ELSE IF picked >= Len(conv.responses)
                 THEN \* Common::Array::operator[] asserts the index
                      [sc EXCEPT !.conversations[this].pickedResponse = picked,
                                 !.crashed = TRUE]
                 ELSE [sc EXCEPT
                         !.conversations[this].pickedResponse = picked,
                         !.conversations[this].state = kActionTrigger,
                         !.soundsPlaying = IF playerSpeech
                                           THEN @ \cup {ResponseSound(this)} ELSE @]

\* the scene change of the first satisfied branch, if any
BranchCalls(sceneBranchStructs) ==
    LET satisfied == {i \in 1..Len(sceneBranchStructs) : sceneBranchStructs[i].satisfied}
    IN  IF satisfied = {} THEN <<>>
        ELSE <<ChangeScene(sceneBranchStructs[
                   CHOOSE i \in satisfied : \A k \in satisfied : i <= k].sceneChange)>>

\* case kActionTrigger; finishExecution marks the record as done
executeActionTrigger(sc, this) ==
    LET conv == sc.conversations[this]
    IN  IF ResponseSound(this) \in sc.soundsPlaying THEN sc
        ELSE [sc EXCEPT
                !.conversations[this].isDone = TRUE,
                !.calls =
                    (IF conv.pickedResponse # -1
                     THEN <<ChangeScene(conv.responses[conv.pickedResponse + 1].sceneChange)>>
                     ELSE BranchCalls(conv.sceneBranchStructs) \o
                          (IF conv.defaultNextScene THEN <<ChangeScene(conv.sceneChange)>>
                           ELSE IF conv.popNextScene THEN <<PopScene>>
                           ELSE <<>>))
                    \o <<FinishExecution>>]

\* ConversationSound::execute()
execute(sc0, this, conditions, videoDone, characterSpeech, playerSpeech) ==
    IF Blocked(sc0, this) THEN sc0
    ELSE LET sc == TakeOver(sc0, this)
             state == sc.conversations[this].state
         IN  IF state = kBegin THEN executeBegin(sc, this, characterSpeech)
             ELSE IF state = kRun
             THEN executeRun(sc, this, conditions, videoDone, playerSpeech)
             ELSE executeActionTrigger(sc, this)

\* the variables of the area, which the scene leaves alone
areaFrame ==
    <<heap, areaVars, colorRemaps, scale, groundColor, globalVars, nextPtr, resolving>>

\* the action manager runs the records that are not done; the two speech
\* settings are read from the configuration at each call
Execute ==
    /\ ~crashed
    /\ \E this \in DOMAIN conversations, characterSpeech \in BOOLEAN,
          playerSpeech \in BOOLEAN :
          /\ ~conversations[this].isDone
          /\ \E sc \in {execute(SceneState, this, logicConditions,
                                videoDonePlaying[this], characterSpeech,
                                playerSpeech)} :
                /\ conversations' = sc.conversations
                /\ activeConversation' = sc.activeConversation
                /\ soundsPlaying' = sc.soundsPlaying
                /\ hotspots' = sc.hotspots
                /\ crashed' = sc.crashed
                /\ lastOp' = [op |-> "execute", arg |-> this, ret |-> sc.calls]
    /\ UNCHANGED <<logicConditions, videoDonePlaying, areaFrame>>

\* a sound reaches its end
SoundEnds ==
    /\ ~crashed
    /\ \E sound \in soundsPlaying :
          /\ soundsPlaying' = soundsPlaying \ {sound}
          /\ lastOp' = [op |-> "soundEnds", arg |-> sound, ret |-> <<>>]
    /\ UNCHANGED <<conversations, activeConversation, logicConditions,
                   videoDonePlaying, hotspots, crashed, areaFrame>>

\* the video of a started conversation reaches its last frame
VideoEnds ==
    /\ ~crashed
    /\ \E this \in DOMAIN conversations :
          /\ conversations[this].state # kBegin
          /\ ~videoDonePlaying[this]
          /\ videoDonePlaying' = [videoDonePlaying EXCEPT ![this] = TRUE]
          /\ lastOp' = [op |-> "videoEnds", arg |-> this, ret |-> <<>>]
    /\ UNCHANGED <<conversations, activeConversation, logicConditions,
                   soundsPlaying, hotspots, crashed, areaFrame>>

\* Textbox::handleInput with a left click on hotspot i: the logic
\* conditions are cleared and condition i is set
HandleInput ==
    /\ ~crashed
    /\ \E i \in 0..(hotspots - 1) :
          /\ logicConditions' = {i}
          /\ lastOp' = [op |-> "handleInput", arg |-> i, ret |-> <<>>]
    /\ UNCHANGED <<conversations, activeConversation, soundsPlaying,
                   videoDonePlaying, hotspots, crashed, areaFrame>>

\* every pattern of satisfied and unsatisfied responses; response j leads
\* to scene 10 + j
ResponsePatterns ==
    UNION { [1..n -> BOOLEAN] : n \in 0..MaxResponses }
Responses(pattern) ==
    [j \in 1..Len(pattern) |-> ResponseStruct(pattern[j], 10 + j)]

\* the first conversation of the scene ...
FirstConversations ==
    { NewConversation(Responses(pattern), <<>>, <<>>, defaultNextScene, FALSE, 20) :
        pattern \in ResponsePatterns, defaultNextScene \in BOOLEAN }
\* ... and the one chained to it: with a goodbye behind a hidden response,
\* or with a branch and a pop
ChainedConversations ==
    { NewConversation(Responses(<<FALSE>>), Responses(<<TRUE>>), <<>>, TRUE, FALSE, 30),
      NewConversation(<<>>, <<>>, <<[satisfied |-> FALSE, sceneChange |-> 41],
                                    [satisfied |-> TRUE, sceneChange |-> 42]>>,
                      FALSE, TRUE, 30) }

\* the scene after its records were read: no area is involved
InitConversation ==
    /\ globalObjectsByID = EmptyMap
    /\ globalEntrancesByID = EmptyMap
    /\ scale = 0
    /\ Construct(<<>>, EmptyMap, EmptyMap)
    /\ \E first \in FirstConversations, chained \in ChainedConversations :
          conversations = <<first, chained>>
    /\ activeConversation = 0
    /\ logicConditions = {}
    /\ soundsPlaying = {}
    /\ videoDonePlaying \in [1..2 -> BOOLEAN]
    /\ hotspots = 0

NextConversation ==
    \/ Execute
    \/ SoundEnds
    \/ VideoEnds
    \/ HandleInput

SpecConversation == InitConversation /\ [][NextConversation]_vars

----------------------------------------------------------------------------
(* Properties of the object store *)

\* an object made at run time (addObject, addObjectFromArea, addFloor,
\* loadObjects), as opposed to one supplied by the level build; pointers are
\* allocated in increasing order, so a later object has the greater pointer
IsRuntime(ptr) == ptr >= FirstRuntimePtr

ViewIndices == 1..Len(drawableObjects)

\* C1: the drawable-ordered view and the objects map agree: every entry of
\* the view is the object stored under its id in the objects map, and every
\* drawable object of the objects map is in the view exactly once.
C1_ViewAgreesWithObjects ==
    ~crashed =>
      /\ \A i \in ViewIndices :
            LET id == heap[drawableObjects[i]].id
            IN  contains(objectsByID, id) /\ objectsByID[id] = drawableObjects[i]
      /\ \A id \in DOMAIN objectsByID :
            isDrawable(heap[objectsByID[id]]) =>
              Cardinality({i \in ViewIndices : drawableObjects[i] = objectsByID[id]}) = 1

\* C2: in the view every run-time object precedes every build-time object,
\* a later-added run-time object precedes an earlier-added one, and the
\* build-time objects keep the order the constructor sorted them into.
C2_RuntimeObjectsFirst ==
    \A i, j \in ViewIndices :
      i < j =>
        LET p == drawableObjects[i]
            q == drawableObjects[j]
        IN  /\ IsRuntime(q) => (IsRuntime(p) /\ p > q)
            /\ (~IsRuntime(p) /\ ~IsRuntime(q)) => compareObjects(heap[p], heap[q])

\* a planar run-time object with a low id ahead of a non-planar build-time
\* object with a higher id, and a second run-time object in the view
C2_Witness ==
    /\ ~crashed
    /\ \E i, j \in ViewIndices :
          /\ i < j
          /\ IsRuntime(drawableObjects[i]) /\ ~IsRuntime(drawableObjects[j])
          /\ isPlanar(heap[drawableObjects[i]]) /\ ~isPlanar(heap[drawableObjects[j]])
          /\ heap[drawableObjects[i]].id < heap[drawableObjects[j]].id
    /\ Cardinality({i \in ViewIndices : IsRuntime(drawableObjects[i])}) >= 2
    /\ Cardinality({i \in ViewIndices : ~IsRuntime(drawableObjects[i])}) >= 2

\* C10: addObject(obj) with an id that is not in the objects map stores obj
\* under its id, puts it at position 0 of the view if and only if it is
\* drawable, records it in the added-objects set and changes nothing else.
C10_AddObjectEffect ==
    [][ (lastOp'.op = "addObject" /\ ~contains(objectsByID, lastOp'.arg.id)) =>
          LET obj == lastOp'.arg
              ptr == lastOp'.ret
          IN  /\ ~crashed'
              /\ heap'[ptr] = obj
              /\ objectsByID' = MapPut(objectsByID, obj.id, ptr)
              /\ drawableObjects' = IF isDrawable(obj)
                                    THEN <<ptr>> \o drawableObjects
                                    ELSE drawableObjects
              /\ addedObjects' = MapPut(addedObjects, obj.id, ptr)
              /\ entrancesByID' = entrancesByID
              /\ \A p \in DOMAIN heap : heap'[p] = heap[p] ]_vars

\* a drawable object was added in front of a view that was not empty, and
\* the added-objects set already held another id
C10_Witness ==
    /\ lastOp.op = "addObject" /\ ~crashed
    /\ isDrawable(lastOp.arg)
    /\ Len(drawableObjects) >= 2 /\ drawableObjects[1] = lastOp.ret
    /\ Cardinality(DOMAIN addedObjects) >= 2

----------------------------------------------------------------------------
(* Properties of the queries *)

\* the objects of the view that are neither destroyed nor invisible
Solid(ptr) == ~isDestroyed(heap[ptr]) /\ ~isInvisible(heap[ptr])
SolidEntries == {i \in ViewIndices : Solid(drawableObjects[i])}

\* box a reaches into the interior of box b
Penetrates(a, b) ==
    \A k \in 1..3 : RLt(b.min[k], a.max[k]) /\ RLt(a.min[k], b.max[k])

PlayerBoxAt(position) == createPlayerAABB(position, lastOp.arg.playerHeight)
Resolved == lastOp.op = "resolveCollisions"

\* the player's box at lastPosition overlaps no solid object
StartIsFree ==
    \A i \in SolidEntries :
        ~Penetrates(PlayerBoxAt(lastOp.arg.lastPosition),
                    BoundingBox(heap[drawableObjects[i]]))

\* C3: a position returned by resolveCollisions for a player that started
\* outside every solid object does not reach into the bounding box of any
\* object that is neither destroyed nor invisible.
C3_NoPenetration ==
    (Resolved /\ ~lastOp.ret.failed /\ StartIsFree) =>
      \A i \in SolidEntries :
          ~Penetrates(PlayerBoxAt(lastOp.ret.position),
                      BoundingBox(heap[drawableObjects[i]]))

\* the desired position is inside a solid object, the first pass was
\* obstructed and a position was returned
C3_Witness ==
    /\ Resolved /\ ~lastOp.ret.failed /\ StartIsFree
    /\ Len(lastOp.ret.passes) >= 2
    /\ \E i \in SolidEntries :
          Penetrates(PlayerBoxAt(lastOp.arg.newPosition),
                     BoundingBox(heap[drawableObjects[i]]))

\* every sweep of the motion lastPosition -> newPosition returns h = 1
MotionIsFree ==
    \A i \in SolidEntries :
        sweepAABB(PlayerBoxAt(lastOp.arg.lastPosition),
                  BoundingBox(heap[drawableObjects[i]]),
                  VSub(lastOp.arg.newPosition, lastOp.arg.lastPosition), VZero).h = One

\* C4: when the motion touches no solid object, resolveCollisions returns
\* exactly the desired position after one pass (also for a zero motion).
C4_FreeMotionUnchanged ==
    (Resolved /\ MotionIsFree) =>
      /\ ~lastOp.ret.failed
      /\ lastOp.ret.position = lastOp.arg.newPosition
      /\ Len(lastOp.ret.passes) = 1

\* a free motion that is not zero, in a scene with solid objects
C4_Witness ==
    /\ Resolved /\ MotionIsFree
    /\ lastOp.arg.newPosition # lastOp.arg.lastPosition
    /\ Cardinality(SolidEntries) >= 2

\* the motion goes through wall w along axis k: the player's box is on one
\* side of w at lastPosition and beyond w at newPosition, and on the two
\* other axes both boxes lie within the extent of w
Within(box, w, j) == RLe(w.min[j], box.min[j]) /\ RLe(box.max[j], w.max[j])
PassesThrough(w, k, fromLow) ==
    LET start == PlayerBoxAt(lastOp.arg.lastPosition)
        target == PlayerBoxAt(lastOp.arg.newPosition)
    IN  /\ IF fromLow
           THEN RLe(start.max[k], w.min[k]) /\ RGe(target.min[k], w.max[k])
           ELSE RGe(start.min[k], w.max[k]) /\ RLe(target.max[k], w.min[k])
        /\ \A j \in (1..3) \ {k} : Within(start, w, j) /\ Within(target, w, j)

\* the gap along axis k between the wall and the player's box at position
GapTo(w, k, fromLow, position) ==
    IF fromLow THEN RSub(w.min[k], PlayerBoxAt(position).max[k])
    ELSE RSub(PlayerBoxAt(position).min[k], w.max[k])

\* C5: when the motion would pass through the only solid object, a wall,
\* the returned position leaves a gap of exactly 1.5 between the player's
\* box and the wall face on the side the player came from.
C5_EpsilonSkin ==
    (Resolved /\ Cardinality(SolidEntries) = 1) =>
      \A i \in SolidEntries, k \in 1..3, fromLow \in BOOLEAN :
          LET w == BoundingBox(heap[drawableObjects[i]])
          IN  PassesThrough(w, k, fromLow) =>
                /\ ~lastOp.ret.failed
                /\ GapTo(w, k, fromLow, lastOp.ret.position) = Rat(3, 2)

\* the player started less than 1.5 from the only wall and went through it
C5_Witness ==
    /\ Resolved /\ Cardinality(SolidEntries) = 1
    /\ \E i \in SolidEntries, k \in 1..3, fromLow \in BOOLEAN :
          LET w == BoundingBox(heap[drawableObjects[i]])
          IN  /\ PassesThrough(w, k, fromLow)
              /\ RLt(GapTo(w, k, fromLow, lastOp.arg.lastPosition), Rat(3, 2))
              /\ lastOp.arg.newPosition[1] # lastOp.arg.lastPosition[1]
              /\ lastOp.arg.newPosition[3] # lastOp.arg.lastPosition[3]

\* obj is a candidate of ray
Qualifies(ptr, ray) ==
    /\ ~isDestroyed(heap[ptr]) /\ ~isInvisible(heap[ptr])
    /\ BoundingBox(heap[ptr]).valid
    /\ intersectAABB(ray, BoundingBox(heap[ptr]))

InView(ptr) == \E i \in ViewIndices : drawableObjects[i] = ptr

\* C6: shootRay returns no object, or an object of the view that is not
\* destroyed, not invisible, has a valid bounding box and is hit by the ray.
C6_ShootRayQualifies ==
    lastOp.op = "shootRay" =>
      \/ lastOp.ret = NoObject
      \/ InView(lastOp.ret) /\ Qualifies(lastOp.ret, lastOp.arg)

\* an object was returned although the ray also hits a destroyed object,
\* an invisible object and an object without bounding box
C6_Witness ==
    /\ lastOp.op = "shootRay" /\ lastOp.ret # NoObject
    /\ \E i \in ViewIndices :
          /\ isDestroyed(heap[drawableObjects[i]])
          /\ intersectAABB(lastOp.arg, BoundingBox(heap[drawableObjects[i]]))
    /\ \E i \in ViewIndices : ~BoundingBox(heap[drawableObjects[i]]).valid

\* C7: no candidate of the ray is strictly smaller than the object that
\* shootRay returns.
C7_ShootRaySmallest ==
    (lastOp.op = "shootRay" /\ lastOp.ret # NoObject) =>
      \A i \in ViewIndices :
          Qualifies(drawableObjects[i], lastOp.arg) =>
            ~RLt(LengthSq(heap[drawableObjects[i]].size),
                 LengthSq(heap[lastOp.ret].size))

\* three candidates of different sizes, a smaller one ahead of a larger one
\* and the smallest one behind both
C7_Witness ==
    /\ lastOp.op = "shootRay" /\ lastOp.ret # NoObject
    /\ \E i, j, k \in ViewIndices :
          /\ i < j /\ j < k /\ drawableObjects[k] = lastOp.ret
          /\ Qualifies(drawableObjects[i], lastOp.arg)
          /\ Qualifies(drawableObjects[j], lastOp.arg)
          /\ RLt(LengthSq(heap[drawableObjects[i]].size),
                 LengthSq(heap[drawableObjects[j]].size))
          /\ RLt(LengthSq(heap[drawableObjects[k]].size),
                 LengthSq(heap[drawableObjects[i]].size))

\* obj is neither destroyed nor invisible and its geometry collides with box
CollidesWith(ptr, box) ==
    /\ ~isDestroyed(heap[ptr]) /\ ~isInvisible(heap[ptr])
    /\ collides(heap[ptr], box)

\* C8: checkCollisions(box) returns exactly the entries of the view that
\* are not destroyed, not invisible and collide with box, in view order.
C8_CheckCollisionsExact ==
    lastOp.op = "checkCollisions" =>
      lastOp.ret = SelectSeq(drawableObjects, LAMBDA ptr : CollidesWith(ptr, lastOp.arg))

\* two objects were returned, an invisible object that overlaps the box was
\* left out
C8_Witness ==
    /\ lastOp.op = "checkCollisions" /\ Len(lastOp.ret) >= 2
    /\ \E i \in ViewIndices :
          /\ isInvisible(heap[drawableObjects[i]])
          /\ collides(heap[drawableObjects[i]], lastOp.arg)

\* the probe cube of edge maxDistance / 30 at sample k of the ray
UnitDirection(ray) ==
    VScale(Rat(1, ISqrt(LengthSq(ray.direction)[1])), ray.direction)
ProbeBox(ray, maxDistance, k) ==
    LET at == VAdd(ray.origin, VScale(Rat(k * maxDistance, 10), UnitDirection(ray)))
    IN  AABB(at, VAdd(at, VScale(Rat(maxDistance, 30), Vec(1, 1, 1))))

\* the object blocks the probe: not a sensor, not destroyed, not invisible,
\* with a valid bounding box that the probe overlaps
Blocks(ptr, probe) ==
    /\ heap[ptr].type # kSensorType
    /\ ~isDestroyed(heap[ptr]) /\ ~isInvisible(heap[ptr])
    /\ heap[ptr].boxValid
    /\ Penetrates(probe, BoundingBox(heap[ptr]))

\* C9: checkInSight returns false exactly when at one of the nine samples
\* k = 2..10 the probe cube is blocked by an object of the view.
C9_CheckInSight ==
    lastOp.op = "checkInSight" =>
      (lastOp.ret = FALSE <=>
         \E k \in 2..10, i \in ViewIndices :
             Blocks(drawableObjects[i],
                    ProbeBox(lastOp.arg.ray, lastOp.arg.maxDistance, k)))

\* sight is free although a visible sensor overlaps one of the probes
C9_Witness ==
    /\ lastOp.op = "checkInSight" /\ lastOp.ret = TRUE
    /\ \E k \in 2..10, i \in ViewIndices :
          /\ heap[drawableObjects[i]].type = kSensorType
          /\ Solid(drawableObjects[i])
          /\ Penetrates(ProbeBox(lastOp.arg.ray, lastOp.arg.maxDistance, k),
                        BoundingBox(heap[drawableObjects[i]]))
    /\ Cardinality(SolidEntries) >= 2

----------------------------------------------------------------------------
(* Properties of the object store, continued *)

\* the positions of the view whose object carries id
EntriesWithID(view, h, id) == {i \in 1..Len(view) : h[view[i]].id = id}

\* C11: removeObject(id) with an id of the objects map, ids of 32768 and
\* above included, removes the id from the objects map and from the
\* added-objects set and removes the entries with that id from the view,
\* leaving everything else and the order of the view as they were.
C11_RemoveObjectEffect ==
    [][ (lastOp'.op = "removeObject" /\ contains(objectsByID, lastOp'.arg)) =>
          LET id == lastOp'.arg
          IN  /\ ~crashed'
              /\ objectsByID' = MapErase(objectsByID, id)
              /\ addedObjects' = MapErase(addedObjects, id)
              /\ drawableObjects' =
                    SelectSeq(drawableObjects, LAMBDA ptr : heap[ptr].id # id)
              /\ entrancesByID' = entrancesByID
              /\ heap' = heap ]_vars

\* C12: addObject of an object with the id that the preceding removeObject
\* removed succeeds, and afterwards the view holds exactly one entry with
\* that id, the new object at the front, if the object is drawable and none
\* if it is not.
C12_RemoveThenAdd ==
    [][ ( /\ lastOp.op = "removeObject" /\ ~crashed
          /\ lastOp'.op = "addObject" /\ lastOp'.arg.id = lastOp.arg ) =>
          /\ ~crashed'
          /\ IF isDrawable(lastOp'.arg)
             THEN EntriesWithID(drawableObjects', heap', lastOp.arg) = {1}
                  /\ drawableObjects'[1] = lastOp'.ret
             ELSE EntriesWithID(drawableObjects', heap', lastOp.arg) = {} ]_vars

\* obj is a copy of src with origin and size multiplied by factor
IsScaledCopy(obj, src, factor) ==
    /\ obj.origin = VScale(RI(factor), src.origin)
    /\ obj.size = VScale(RI(factor), src.size)
    /\ [obj EXCEPT !.origin = src.origin, !.size = src.size] = src

\* C13: addObjectFromArea(id, global) takes the object from the global
\* objects map, or if id is not there from the global entrances map, and
\* stores a fresh scaled duplicate under id: in the objects map and, if
\* drawable, at the front of the view for a global object, in the entrances
\* map and not in the view for a global entrance; id is recorded in the
\* added-objects set in both cases.
C13_AddObjectFromAreaEffect ==
    [][ lastOp'.op = "addObjectFromArea" =>
          LET id == lastOp'.arg
              ptr == lastOp'.ret
          IN  IF contains(globalObjectsByID, id)
              THEN /\ ~crashed'
                   /\ ptr \notin DOMAIN heap
                   /\ IsScaledCopy(heap'[ptr], heap[globalObjectsByID[id]], scale)
                   /\ objectsByID' = MapPut(objectsByID, id, ptr)
                   /\ drawableObjects' = IF isDrawable(heap'[ptr])
                                         THEN <<ptr>> \o drawableObjects
                                         ELSE drawableObjects
                   /\ entrancesByID' = entrancesByID
                   /\ addedObjects' = MapPut(addedObjects, id, ptr)
              ELSE contains(globalEntrancesByID, id) =>
                   /\ ~crashed'
                   /\ ptr \notin DOMAIN heap
                   /\ IsScaledCopy(heap'[ptr], heap[globalEntrancesByID[id]], scale)
                   /\ entrancesByID' = MapPut(entrancesByID, id, ptr)
                   /\ objectsByID' = objectsByID
                   /\ drawableObjects' = drawableObjects
                   /\ addedObjects' = MapPut(addedObjects, id, ptr) ]_vars

\* id 6 is in both global maps: its duplicate went into the objects map and
\* to the front of the view, after the duplicate of entrance 7 had gone into
\* the entrances map
C13_Witness ==
    /\ lastOp.op = "addObjectFromArea" /\ lastOp.arg = 6 /\ ~crashed
    /\ contains(globalEntrancesByID, 6)
    /\ Len(drawableObjects) >= 2 /\ drawableObjects[1] = lastOp.ret
    /\ contains(entrancesByID, 7) /\ contains(addedObjects, 7)
    /\ heap[lastOp.ret].size # heap[globalObjectsByID[6]].size

\* the call that made lastOp' violates a precondition
PreconditionViolated ==
    \/ lastOp'.op = "addObject" /\ contains(objectsByID, lastOp'.arg.id)
    \/ lastOp'.op = "removeObject" /\ ~contains(objectsByID, lastOp'.arg)
    \/ /\ lastOp'.op = "addObjectFromArea"
       /\ ~contains(globalObjectsByID, lastOp'.arg)
       /\ ~contains(globalEntrancesByID, lastOp'.arg)

\* C14: addObject with an id of the objects map, removeObject with an id
\* that is not in the objects map and addObjectFromArea with an id that is
\* in neither global map abort, with both maps, the view, the added-objects
\* set and every object as they were before the call.
C14_PreconditionsAbort ==
    [][ PreconditionViolated =>
          /\ crashed'
          /\ areaVars' = areaVars
          /\ colorRemaps' = colorRemaps
          /\ \A p \in DOMAIN heap : heap'[p] = heap[p] ]_vars

\* removeObject of an absent id aborted in an area that holds objects in
\* its maps, its view and its added-objects set
C14_Witness ==
    /\ crashed /\ lastOp.op = "removeObject"
    /\ ~contains(objectsByID, lastOp.arg)
    /\ Len(drawableObjects) >= 2
    /\ DOMAIN addedObjects # {}

\* C15: an operation that adds objects (addObject, addObjectFromArea,
\* addStructure with its floor) and does not abort has replaced no object
\* that the objects map held: every id of the map still has its object.
C15_NoSilentReplacement ==
    [][ ( /\ lastOp'.op \in {"addObject", "addObjectFromArea", "addStructure"}
          /\ ~crashed' ) =>
          \A id \in DOMAIN objectsByID :
              contains(objectsByID', id) /\ objectsByID'[id] = objectsByID[id] ]_vars

\* how often ~Area deleted ptr
TimesDeleted(ptr) == Cardinality({i \in 1..Len(lastOp.ret) : lastOp.ret[i] = ptr})

\* C16: when the area is destroyed every object it owns (the objects of
\* its build and every object made at run time) is deleted exactly once and
\* no object of the global area is deleted.
C16_DestroyReleasesOwned ==
    lastOp.op = "~Area" =>
      /\ \A ptr \in (DOMAIN heap) \ GlobalPtrs : TimesDeleted(ptr) = 1
      /\ \A ptr \in GlobalPtrs : TimesDeleted(ptr) = 0

\* C17: addObjectFromArea, addStructure and loadObjects leave the global
\* area as it was: its two maps and each of its objects.
C17_GlobalAreaUnchanged ==
    [][ lastOp'.op \in {"addObjectFromArea", "addStructure", "loadObjects"} =>
          /\ globalObjectsByID' = globalObjectsByID
          /\ globalEntrancesByID' = globalEntrancesByID
          /\ \A ptr \in GlobalPtrs : heap'[ptr] = heap[ptr] ]_vars

\* loadObjects took object 6 from the global area and gave the duplicate
\* flags that the global object does not have
C17_Witness ==
    /\ lastOp.op = "loadObjects" /\ ~crashed
    /\ contains(objectsByID, 6) /\ objectsByID[6] \notin GlobalPtrs
    /\ heap[objectsByID[6]].flags # heap[globalObjectsByID[6]].flags
    /\ heap[objectsByID[6]].origin # heap[globalObjectsByID[6]].origin

\* the objects of the two maps
MapObjects == MapValues(objectsByID) \cup MapValues(entrancesByID)

\* C18: after resetArea the color remaps are empty and every object of the
\* objects map and of the entrances map is not destroyed and is invisible
\* exactly when it is initially invisible; the two maps, the view, the
\* added-objects set and every origin are as before.
C18_ResetArea ==
    [][ lastOp'.op = "resetArea" =>
          /\ ~crashed'
          /\ colorRemaps' = EmptyMap
          /\ areaVars' = areaVars
          /\ \A ptr \in MapObjects :
                /\ ~isDestroyed(heap'[ptr])
                /\ isInvisible(heap'[ptr]) <=> isInitiallyInvisible(heap[ptr])
                /\ isInitiallyInvisible(heap'[ptr]) <=> isInitiallyInvisible(heap[ptr])
          /\ DOMAIN heap' = DOMAIN heap
          /\ \A ptr \in DOMAIN heap :
                /\ heap'[ptr].origin = heap[ptr].origin
                /\ heap'[ptr].size = heap[ptr].size ]_vars

\* after the reset an object that loadObjects had moved and marked destroyed
\* and invisible is whole and visible, and an initially invisible object is
\* invisible
C18_Witness ==
    /\ lastOp.op = "resetArea"
    /\ \E id \in DOMAIN objectsByID :
          /\ heap[objectsByID[id]].origin = Vec(1, 2, 3)
          /\ heap[objectsByID[id]].flags = 0
    /\ \E id \in DOMAIN objectsByID :
          /\ isInitiallyInvisible(heap[objectsByID[id]])
          /\ isInvisible(heap[objectsByID[id]])
    /\ DOMAIN entrancesByID # {}

\* an area freshly built from the level data this area was built from,
\* with the same global area
FreshArea ==
    LET objs == {i \in 1..Len(LevelObjects) : LevelObjectPtr(i) \in DOMAIN heap}
        ents == {i \in 1..Len(LevelEntrances) : LevelEntrancePtr(i) \in DOMAIN heap}
        build == [objects |-> objs, entrances |-> ents]
        h == [p \in GlobalPtrs \cup BuildPtrs(build) |->
                 IF p \in GlobalPtrs THEN heap[p] ELSE LevelHeap[p]]
        objects == MapOfList(LevelObjects, objs, LevelObjectPtr)
    IN  [heap |-> h, objectsByID |-> objects,
         entrancesByID |-> MapOfList(LevelEntrances, ents, LevelEntrancePtr),
         drawableObjects |-> InitialView(h, objects), addedObjects |-> EmptyMap,
         colorRemaps |-> EmptyMap, nextPtr |-> FirstRuntimePtr, crashed |-> FALSE]

\* the fresh area after loadObjects has read the stream just saved
Reloaded == loadObjects(FreshArea, lastOp.ret)

\* C19: a stream written by saveObjects is read by loadObjects into a
\* freshly built area without assertion failure, and then every saved id
\* has the saved flags and origin and the remaps are the saved remaps.
C19_SaveLoadRoundTrip ==
    lastOp.op = "saveObjects" =>
      /\ ~Reloaded.crashed
      /\ \A i \in 1..Len(lastOp.ret.objects) :
            LET e == lastOp.ret.objects[i]
            IN  /\ contains(Reloaded.objectsByID, e.key)
                /\ Reloaded.heap[Reloaded.objectsByID[e.key]].flags = e.flags
                /\ Reloaded.heap[Reloaded.objectsByID[e.key]].origin = e.origin
      /\ Reloaded.colorRemaps = colorRemaps

\* C20: after loadObjects has read a stream written by saveObjects, a
\* second saveObjects writes the same stream.
C20_SaveLoadSave ==
    (lastOp.op = "saveObjects" /\ ~Reloaded.crashed) =>
      saveObjects(Reloaded) = lastOp.ret

----------------------------------------------------------------------------
(* Properties of the structure, of drawing and of lookups *)

\* the call that made lastOp' is addStructure without a global area or on
\* an area without the structural template 255
TemplateMissing ==
    /\ lastOp'.op = "addStructure"
    /\ ~lastOp'.arg \/ ~contains(entrancesByID, 255)

\* the call that made lastOp' added the floor, and nothing else: object 0
\* is a new cube with six ground colors, first in the view
FloorAdded ==
    LET ptr == lastOp'.ret
    IN  /\ ~crashed'
        /\ ptr \notin DOMAIN heap
        /\ DOMAIN heap' = DOMAIN heap \cup {ptr}
        /\ \A p \in DOMAIN heap : heap'[p] = heap[p]
        /\ heap'[ptr].id = 0 /\ heap'[ptr].type = kCubeType
        /\ heap'[ptr].colors = [i \in 1..6 |-> groundColor]
        /\ objectsByID' = MapPut(objectsByID, 0, ptr)
        /\ drawableObjects' = <<ptr>> \o drawableObjects
        /\ entrancesByID' = entrancesByID
        /\ addedObjects' = addedObjects
        /\ colorRemaps' = colorRemaps

\* C21: in every state of the area, addStructure without a global area or
\* without the template 255 does not abort and adds exactly the floor,
\* object 0 in the ground color, to the objects map and to the front of the
\* view, and changes nothing else.
C21_MissingTemplateRecovered ==
    [][ TemplateMissing => FloorAdded ]_vars

\* C21, amended: the same when the objects map holds no object 0 before the
\* call; with an object 0 the call aborts.
C21_FloorWhenAbsent ==
    [][ TemplateMissing =>
          IF contains(objectsByID, 0)
          THEN crashed' /\ areaVars' = areaVars /\ heap' = heap
          ELSE FloorAdded ]_vars

\* the floor went in front of a view that held objects, in an area that was
\* given a global area but has no template 255
C21_Witness ==
    /\ lastOp.op = "addStructure" /\ lastOp.arg /\ ~crashed
    /\ ~contains(entrancesByID, 255)
    /\ contains(objectsByID, 0) /\ objectsByID[0] = lastOp.ret
    /\ Len(drawableObjects) >= 2 /\ drawableObjects[1] = lastOp.ret

\* the calls Area::draw owes to one entry of the view: none for a destroyed
\* or invisible entry, one draw for an object, and for a group, for every
\* part in index order, the assembly of frame (ticks / 10) mod frameCount
\* and then the draw of the part
CallsOwed(ptr, ticks) ==
    LET obj == heap[ptr]
    IN  IF isDestroyed(obj) \/ isInvisible(obj) THEN <<>>
        ELSE IF obj.type # kGroupType THEN << DrawCall(ptr) >>
        ELSE [j \in 1..(2 * Len(obj.objects)) |->
                IF j % 2 = 1
                THEN AssembleCall(ptr, (ticks \div 10) % Len(obj.objectPositions),
                                  (j - 1) \div 2)
                ELSE DrawCall(obj.objects[j \div 2])]

\* the calls owed to the entries k..Len(drawableObjects), in view order
RECURSIVE CallsOwedFrom(_, _)
CallsOwedFrom(k, ticks) ==
    IF k > Len(drawableObjects) THEN <<>>
    ELSE CallsOwed(drawableObjects[k], ticks) \o CallsOwedFrom(k + 1, ticks)

\* C22: draw makes, in view order, one draw call for every entry that is
\* neither destroyed nor invisible and none for the others; for a group it
\* makes instead, for every part in index order, the assembly of frame
\* (ticks / 10) mod frameCount followed by one draw of the part.
C22_DrawOrder ==
    (lastOp.op = "draw" /\ ~crashed) => lastOp.ret = CallsOwedFrom(1, lastOp.arg)

\* a frame with a group of two parts at frame 2, a hidden group after it
\* and a drawn wall at the end
C22_Witness ==
    /\ lastOp.op = "draw" /\ ~crashed /\ lastOp.arg = 25
    /\ Len(drawableObjects) = 3
    /\ heap[drawableObjects[1]].type = kGroupType
    /\ Len(heap[drawableObjects[1]].objects) = 2
    /\ isInvisible(heap[drawableObjects[2]])
    /\ Len(lastOp.ret) = 5
    /\ lastOp.ret[1] = AssembleCall(drawableObjects[1], 2, 0)
    /\ lastOp.ret[5] = DrawCall(drawableObjects[3])

\* C23: the lookup of an id returns the object the objects map holds under
\* it if there is one, otherwise the object the entrances map holds under
\* it, and none only when neither map holds the id.
C23_LookupBothMaps ==
    lastOp.op = "objectWithID" =>
      lastOp.ret = IF contains(objectsByID, lastOp.arg)
                   THEN objectsByID[lastOp.arg]
                   ELSE IF contains(entrancesByID, lastOp.arg)
                   THEN entrancesByID[lastOp.arg]
                   ELSE NoObject

----------------------------------------------------------------------------
(* Properties of the collision resolver, continued *)

\* the passes of the call of lastOp whose sweep was obstructed (h < 1)
ObstructedPasses ==
    {k \in 1..Len(lastOp.ret.passes) : RLt(lastOp.ret.passes[k].distance, One)}

\* C24: a call of resolveCollisions whose sweep is obstructed more than 5
\* times raises the overrun assertion and returns no position, and a call
\* obstructed 5 times or fewer does not raise it.
C24_OverrunIsFatal ==
    lastOp.op = "resolveCollisions" =>
      /\ lastOp.ret.failed <=> Cardinality(ObstructedPasses) > 5
      /\ crashed <=> lastOp.ret.failed

\* between two facing walls the sixth obstructed pass raised the assertion
C24_Witness ==
    /\ lastOp.op = "resolveCollisions" /\ crashed
    /\ Cardinality(ObstructedPasses) = 6
    /\ Len(lastOp.ret.passes) = 6

\* C25: a call of resolveCollisions ends, by returning or by the overrun
\* assertion, and until then at most 5 obstructed passes are behind it.
C25_ResolveTerminates ==
    /\ [](resolving.pc = "loop" =>
            /\ resolving.i <= MaxPasses
            /\ Len(resolving.passes) = resolving.i)
    /\ (resolving.pc = "loop") ~> (resolving = Idle)

\* a call that returned after an obstructed pass and a free one, with the
\* result of the whole function
C25_Witness ==
    /\ resolving = Idle /\ lastOp.op = "resolveCollisions" /\ ~crashed
    /\ Len(lastOp.ret.passes) = 2
    /\ lastOp.ret = resolveCollisions(heap, drawableObjects, lastOp.arg.lastPosition,
                                      lastOp.arg.newPosition, lastOp.arg.playerHeight)

\* the position the first pass of the running call corrected to
CorrectedFirst ==
    LET pass == resolving.passes[1]
    IN  VAdd(VAdd(resolving.args.lastPosition, VScale(pass.distance, pass.direction)),
             VScale(Epsilon, pass.normal))

\* C26: after an obstructed pass the next pass starts from the corrected
\* position - the 'last' reference and the player box are moved there - and
\* its motion vector is the original desired position minus the corrected
\* position, so that the player slides along the obstacle.
C26_NextPassFromCorrected ==
    (resolving.pc = "loop" /\ resolving.i = 1) =>
      /\ resolving.lastPosition = CorrectedFirst
      /\ resolving.boundingBox =
            createPlayerAABB(CorrectedFirst, resolving.args.playerHeight)
      /\ VSub(resolving.position, resolving.lastPosition) =
            VSub(resolving.args.newPosition, CorrectedFirst)

----------------------------------------------------------------------------
(* Properties of shootRay, continued *)

\* C27: among the qualifying candidates of the smallest size shootRay
\* returns the one that comes first in the view.
C27_FirstFoundWins ==
    (lastOp.op = "shootRay" /\ lastOp.ret # NoObject) =>
      \A i, j \in ViewIndices :
          ( /\ drawableObjects[j] = lastOp.ret
            /\ Qualifies(drawableObjects[i], lastOp.arg)
            /\ LengthSq(heap[drawableObjects[i]].size) = LengthSq(heap[lastOp.ret].size) )
          => j <= i

\* C28: shootRay returns an object whenever an object of the view
\* qualifies, whatever the sizes: the initial size 131072 never makes it
\* return none while the ray hits a candidate.
C28_HitAlwaysWins ==
    lastOp.op = "shootRay" =>
      ( (\E i \in ViewIndices : Qualifies(drawableObjects[i], lastOp.arg))
        => lastOp.ret # NoObject )

----------------------------------------------------------------------------
(* Properties of sweepAABB *)

\* the unit vector of axis k times side (-1: the min face, 1: the max face)
FaceNormal(k, side) == [j \in 1..3 |-> IF j = k THEN RI(side) ELSE Zero]

\* the Minkowski-difference box of the call of lastOp: min = b.min - a.max,
\* extent = a.size + b.size
MinkowskiMin == VSub(lastOp.arg.b.min, lastOp.arg.a.max)
MinkowskiMax ==
    VAdd(MinkowskiMin, VAdd(getSize(lastOp.arg.a), getSize(lastOp.arg.b)))

\* the two planes of axis k are along the motion
AlongAxis(k) == lastOp.arg.direction[k] = Zero

\* C29: a plane whose normal has zero dot product with the motion has an
\* infinite intersection time and is never selected: a motion without
\* component on an axis reports no hit on the two faces of that axis, and
\* a zero motion yields h = 1 with the normal as it was.
C29_ParallelPlanesUnreachable ==
    lastOp.op = "sweepAABB" =>
      /\ \A k \in 1..3 : AlongAxis(k) =>
            /\ lineToPlane(VZero, lastOp.arg.direction, MinkowskiMin,
                           FaceNormal(k, -1)) = RInfinity
            /\ lineToPlane(VZero, lastOp.arg.direction, MinkowskiMax,
                           FaceNormal(k, 1)) = RInfinity
            /\ lastOp.ret.normal # lastOp.arg.normal => lastOp.ret.normal[k] = Zero
            /\ RLt(lastOp.ret.h, One) => lastOp.ret.normal[k] = Zero
      /\ lastOp.arg.direction = VZero =>
            lastOp.ret = [h |-> One, normal |-> lastOp.arg.normal]

\* a motion along x that hits the min face of x: the four planes of y and z
\* are along the motion
C29_Witness ==
    /\ lastOp.op = "sweepAABB"
    /\ AlongAxis(2) /\ AlongAxis(3) /\ ~AlongAxis(1)
    /\ RLt(lastOp.ret.h, One) /\ RGt(lastOp.ret.h, Zero)
    /\ lastOp.ret.normal = Vec(-1, 0, 0)

\* the faces of the Minkowski box as <<axis, side>>, the time at which the
\* motion reaches the plane of a face, and the faces the motion hits: it
\* moves towards the face, reaches its plane at 0 <= s < 1, and the point
\* reached lies within the face on the two other axes
Faces == (1..3) \X {-1, 1}
FacePlane(f) == IF f[2] = -1 THEN MinkowskiMin[f[1]] ELSE MinkowskiMax[f[1]]
FaceTime(f) == RDiv(FacePlane(f), lastOp.arg.direction[f[1]])
FaceHit(f) ==
    LET d == lastOp.arg.direction
    IN  /\ IF f[2] = -1 THEN RGt(d[f[1]], Zero) ELSE RLt(d[f[1]], Zero)
        /\ RGe(FaceTime(f), Zero) /\ RLt(FaceTime(f), One)
        /\ \A j \in (1..3) \ {f[1]} :
              /\ RLe(MinkowskiMin[j], RMul(FaceTime(f), d[j]))
              /\ RLe(RMul(FaceTime(f), d[j]), MinkowskiMax[j])

\* C30: sweepAABB returns the smallest fraction 0 <= s < 1 at which the
\* motion reaches a face of the Minkowski box that it moves towards, within
\* the face, and the outward normal of such a face; it returns 1 and the
\* normal as it was when there is no such face; the fraction is in [0, 1].
C30_SweepIsFirstContact ==
    lastOp.op = "sweepAABB" =>
      /\ RGe(lastOp.ret.h, Zero) /\ RLe(lastOp.ret.h, One)
      /\ IF \E f \in Faces : FaceHit(f)
         THEN /\ \E f \in Faces :
                    /\ FaceHit(f)
                    /\ lastOp.ret.h = FaceTime(f)
                    /\ lastOp.ret.normal = FaceNormal(f[1], f[2])
              /\ \A f \in Faces : FaceHit(f) => RLe(lastOp.ret.h, FaceTime(f))
         ELSE lastOp.ret = [h |-> One, normal |-> lastOp.arg.normal]

\* a motion slanted on the three axes that reaches the min face of x (a
\* wall) at a fraction strictly between 0 and 1
C30_Witness ==
    /\ lastOp.op = "sweepAABB"
    /\ ~AlongAxis(1) /\ ~AlongAxis(2) /\ ~AlongAxis(3)
    /\ RGt(lastOp.ret.h, Zero) /\ RLt(lastOp.ret.h, One)
    /\ lastOp.ret.normal = Vec(-1, 0, 0)
    /\ lastOp.arg.normal # lastOp.ret.normal

----------------------------------------------------------------------------
(* Properties of the object store: tracking, structure, loading, sorting *)

\* the ids under which map holds the object ptr
IdsOf(map, ptr) == {id \in DOMAIN map : map[id] = ptr}

\* C31: every object made at run time (addObject, addObjectFromArea, the
\* floor of addStructure, the duplicates of loadObjects) that is in the
\* objects map or in the entrances map has its id in the added-objects set,
\* with that object recorded there; no object of the level build is in the
\* set.
C31_RuntimeObjectsTracked ==
    ~crashed =>
      /\ \A ptr \in MapObjects :
            IsRuntime(ptr) =>
              \A id \in IdsOf(objectsByID, ptr) \cup IdsOf(entrancesByID, ptr) :
                  contains(addedObjects, id) /\ addedObjects[id] = ptr
      /\ \A id \in DOMAIN addedObjects : IsRuntime(addedObjects[id])

\* the structural template of the area and its non-zero ids in list order
Template == heap[entrancesByID[255]].structure
TemplateIDs == SelectSeq(Template, LAMBDA id : id # 0)

\* the object of the global area that addObjectFromArea takes for id
GlobalSource(id) ==
    IF contains(globalObjectsByID, id) THEN globalObjectsByID[id]
    ELSE globalEntrancesByID[id]

\* C32: addStructure(global) on an area with the template 255 makes, for
\* the non-zero ids of the template in list order, one scaled duplicate
\* each of the global object of that id and nothing for an id 0; it adds
\* no floor, and afterwards every non-zero id of the template is in the
\* objects map or in the entrances map.
C32_StructureFromTemplate ==
    [][ ( /\ lastOp'.op = "addStructure" /\ lastOp'.arg
          /\ contains(entrancesByID, 255)
          /\ \A k \in 1..Len(TemplateIDs) :
                \/ contains(globalObjectsByID, TemplateIDs[k])
                \/ contains(globalEntrancesByID, TemplateIDs[k]) )
        => /\ ~crashed'
           /\ nextPtr' = nextPtr + Len(TemplateIDs)
           /\ \A k \in 1..Len(TemplateIDs) :
                 LET id == TemplateIDs[k]
                     ptr == nextPtr + k - 1
                 IN  /\ IsScaledCopy(heap'[ptr], heap[GlobalSource(id)], scale)
                     /\ \/ contains(objectsByID', id)
                        \/ contains(entrancesByID', id)
                     /\ IF contains(globalObjectsByID, id)
                        THEN ptr \in MapValues(objectsByID')
                        ELSE ptr \in MapValues(entrancesByID')
           /\ contains(objectsByID', 0) <=> contains(objectsByID, 0)
           /\ DOMAIN objectsByID' \cup DOMAIN entrancesByID' =
                 DOMAIN objectsByID \cup DOMAIN entrancesByID
                 \cup {TemplateIDs[k] : k \in 1..Len(TemplateIDs)} ]_vars

\* the template <<7, 0, 6>> was followed: entrance 7 was duplicated first,
\* then object 6, and there is no floor
C32_Witness ==
    /\ lastOp.op = "addStructure" /\ lastOp.arg /\ ~crashed
    /\ contains(entrancesByID, 255) /\ Len(Template) = 3 /\ Template[2] = 0
    /\ contains(entrancesByID, 7) /\ entrancesByID[7] = lastOp.ret
    /\ contains(objectsByID, 6) /\ objectsByID[6] = lastOp.ret + 1
    /\ ~contains(objectsByID, 0)

\* the state after addObjectFromArea(key, global) followed by setting the
\* saved flags and origin of the entry on the new object
RestoredFromArea(e) ==
    LET st == addObjectFromArea(AreaState, e.key, scale)
    IN  IF st.crashed THEN st
        ELSE setFlagsAndOrigin(st, nextPtr, e.flags, e.origin)

\* C33: loadObjects of a stream with one object whose id is absent from the
\* objects map leaves the heap, both maps, the view and the added-objects
\* set as addObjectFromArea(id, global) followed by setting the saved flags
\* and origin leaves them, and fails only where that fails.
C33_LoadRestoresAsAddFromArea ==
    [][ ( /\ lastOp'.op = "loadObjects"
          /\ Len(lastOp'.arg.objects) = 1
          /\ ~contains(objectsByID, ToUint16(lastOp'.arg.objects[1].key)) )
        => LET st == RestoredFromArea(lastOp'.arg.objects[1])
           IN  /\ crashed' = st.crashed
               /\ heap' = st.heap
               /\ objectsByID' = st.objectsByID
               /\ entrancesByID' = st.entrancesByID
               /\ drawableObjects' = st.drawableObjects
               /\ addedObjects' = st.addedObjects ]_vars

\* C34: immediately after construction the view holds exactly the drawable
\* objects of the objects map, each once and no entrance, every non-planar
\* object before every planar one and, within one planarity class, a
\* higher id before a lower id.
C34_ViewAfterConstruction ==
    lastOp.op = "Area" =>
        /\ \A i, j \in DOMAIN drawableObjects :
              drawableObjects[i] = drawableObjects[j] => i = j
        /\ {drawableObjects[i] : i \in DOMAIN drawableObjects} =
              {ptr \in MapValues(objectsByID) : isDrawable(heap[ptr])}
        /\ \A i \in DOMAIN drawableObjects :
              drawableObjects[i] \notin MapValues(entrancesByID)
        /\ \A i, j \in DOMAIN drawableObjects :
              i < j =>
                LET a == heap[drawableObjects[i]]
                    b == heap[drawableObjects[j]]
                IN  /\ ~(isPlanar(a) /\ ~isPlanar(b))
                    /\ isPlanar(a) = isPlanar(b) => a.id > b.id

\* a build with two cubes, two rectangles and a non-drawable object: the
\* view is cube 3, cube 1, rectangle 4, rectangle 2
C34_Witness ==
    /\ lastOp.op = "Area"
    /\ Len(drawableObjects) = 4
    /\ Cardinality(DOMAIN objectsByID) = 5
    /\ [i \in 1..4 |-> heap[drawableObjects[i]].id] = <<3, 1, 4, 2>>

\* every pointer the area stores
AreaPtrs ==
    MapValues(objectsByID) \cup MapValues(entrancesByID) \cup MapValues(addedObjects)
    \cup {drawableObjects[i] : i \in DOMAIN drawableObjects}

\* C35: no object stored in the area's objects map, entrances map, view or
\* added-objects set is an object of the global area's maps, and the
\* objects of the global area stay as they were built.
C35_NoObjectSharedWithGlobal ==
    /\ AreaPtrs \cap GlobalPtrs = {}
    /\ \A p \in GlobalPtrs : p \in DOMAIN heap /\ heap[p] = LevelHeap[p]

\* the area holds duplicates taken by addStructure and by loadObjects, and
\* one of them was changed after it was taken
C35_Witness ==
    /\ ~crashed
    /\ \E id \in DOMAIN entrancesByID :
          IsRuntime(entrancesByID[id]) /\ contains(globalEntrancesByID, id)
    /\ \E id \in DOMAIN objectsByID :
          /\ IsRuntime(objectsByID[id]) /\ contains(globalObjectsByID, id)
          /\ heap[objectsByID[id]].flags # heap[globalObjectsByID[id]].flags

\* C36: unremapColor(index) removes the remap of index and leaves the
\* remap of every other index as it was; remapColor(index, color) sets the
\* remap of index to color and leaves every other index as it was.
C36_RemapsChangeOneIndex ==
    [][ /\ lastOp'.op = "unremapColor" =>
              /\ ~contains(colorRemaps', lastOp'.arg)
              /\ \A i \in RemapIndexes \ {lastOp'.arg} :
                    /\ contains(colorRemaps', i) = contains(colorRemaps, i)
                    /\ contains(colorRemaps, i) => colorRemaps'[i] = colorRemaps[i]
        /\ lastOp'.op = "remapColor" =>
              /\ contains(colorRemaps', lastOp'.arg[1])
              /\ colorRemaps'[lastOp'.arg[1]] = lastOp'.arg[2]
              /\ \A i \in RemapIndexes \ {lastOp'.arg[1]} :
                    /\ contains(colorRemaps', i) = contains(colorRemaps, i)
                    /\ contains(colorRemaps, i) => colorRemaps'[i] = colorRemaps[i] ]_vars

QueryOps ==
    {"shootRay", "checkCollisions", "checkInSight", "resolveCollisions",
     "getSensors", "objectWithID", "entranceWithID"}

\* what the query op answers to the arguments arg in the current state
QueryResult(op, arg) ==
    CASE op = "shootRay" -> shootRay(heap, drawableObjects, arg)
      [] op = "checkCollisions" -> checkCollisions(heap, drawableObjects, arg)
      [] op = "checkInSight" ->
            checkInSight(heap, drawableObjects, arg.ray, arg.maxDistance)
      [] op = "resolveCollisions" ->
            resolveCollisions(heap, drawableObjects, arg.lastPosition,
                              arg.newPosition, arg.playerHeight)
      [] op = "getSensors" -> getSensors(AreaState)
      [] op = "objectWithID" -> objectWithID(AreaState, arg)
      [] op = "entranceWithID" -> entranceWithID(AreaState, arg)

\* the last query asked again in the current state
Requery == QueryResult(lastOp.op, lastOp.arg)

----------------------------------------------------------------------------
(* Properties of the conversation records *)

\* the responses on screen, as indexes into responses counted from 0, and
\* the index of the one shown as number k, counted from 0
OnScreen(responses) == {j \in 0..(Len(responses) - 1) : responses[j + 1].isOnScreen}
OnScreenIndex(responses, k) ==
    CHOOSE j \in OnScreen(responses) :
        Cardinality({m \in OnScreen(responses) : m < j}) = k

\* C38: when execute picks a response because logic condition k is set and
\* k responses or more are on screen, _pickedResponse is the index in
\* _responses of the response shown as number k: a valid index of a
\* response that is on screen.
C38_PickedIsTheShownOne ==
    [][ \A this \in DOMAIN conversations :
          ( /\ lastOp'.op = "execute" /\ lastOp'.arg = this
            /\ conversations[this].pickedResponse = -1
            /\ conversations'[this].pickedResponse # -1
            /\ FirstLogicCondition(logicConditions) <
                  Cardinality(OnScreen(conversations'[this].responses)) )
          => LET responses == conversations'[this].responses
                 picked == conversations'[this].pickedResponse
             IN  /\ picked \in 0..(Len(responses) - 1)
                 /\ responses[picked + 1].isOnScreen
                 /\ picked = OnScreenIndex(responses, FirstLogicCondition(logicConditions))
      ]_vars

\* the place of a state in the order kBegin, kRun, kActionTrigger
StateOrder(state) ==
    CASE state = kBegin -> 1 [] state = kRun -> 2 [] state = kActionTrigger -> 3

\* another conversation is active and is not done, has its default next
\* scene enabled or has a picked response
OtherHolds(this) ==
    /\ activeConversation \notin {0, this}
    /\ \/ ~conversations[activeConversation].isDone
       \/ conversations[activeConversation].defaultNextScene
       \/ conversations[activeConversation].pickedResponse # -1

\* the scene changes a conversation without picked response may ask for
DefaultCalls(conv) ==
    {ChangeScene(conv.sceneBranchStructs[i].sceneChange) :
        i \in {k \in 1..Len(conv.sceneBranchStructs) : conv.sceneBranchStructs[k].satisfied}}
    \cup (IF conv.defaultNextScene THEN {ChangeScene(conv.sceneChange)}
          ELSE IF conv.popNextScene THEN {PopScene} ELSE {})

============================================================================
